---------------------------- MODULE Spec2Model ----------------------------
(***************************************************************************)
(* A model of DarkAlpha phase one (dark_alpha_phase_one):                  *)
(*   - RiskEngine (risk_engine.py) and the part of SignalService           *)
(*     (service.py) that decides whether evaluate_symbol returns a card;   *)
(*   - SourceManager (data/source_manager.py) over DataStore               *)
(*     (data/datastore.py): the ws/rest mode machine.                      *)
(* Two specifications share the variables: SpecRisk and SpecSM.            *)
(***************************************************************************)
EXTENDS Integers, Sequences, FiniteSets, TLC

(***************************************************************************)
(* Common                                                                  *)
(***************************************************************************)

\* Python's None for a timestamp or a number.
None == 0 - 1

\* settings.symbols, in the configured order.
Symbols == <<"BTCUSDT", "ETHUSDT">>

SymbolSet == {Symbols[i] : i \in 1..Len(Symbols)}

\* dict.get / dict[key] = value on a dict modelled as a function.
MapGet(m, k, default) == IF k \in DOMAIN m THEN m[k] ELSE default

MapSet(m, k, v) == [x \in (DOMAIN m) \cup {k} |-> IF x = k THEN v ELSE m[x]]

EmptyMap == [x \in {} |-> None]

(***************************************************************************)
(* RiskEngine and SignalService.evaluate_symbol.  Time is the wall clock   *)
(* (datetime.now(tz=utc), time.time()) in minutes.                         *)
(***************************************************************************)

\* The last wall-clock minute of a run.
MaxRiskTime == 7

\* Minutes of one UTC date (1440 in datetime), scaled down.
MinutesPerDay == 4

\* Settings of the runs (RiskEngine.__init__ arguments), scaled down.
max_cards_per_day == 2

cooldown_after_trigger_minutes == 3

max_daily_loss_usdt == 3

\* settings.dedupe_window_seconds, in minutes.
dedupe_window_minutes == 1

\* settings.test_emit_interval_sec, in minutes.
test_emit_interval_minutes == 1

\* settings.test_emit_symbols.
test_emit_symbols == {"BTCUSDT"}

\* The most triggers recorded on one date in a run.
MaxCardsCount == 3

RiskTimes == 0..MaxRiskTime

\* The PnL ledger: no file, or its lines ("h": the header, "b": a blank line,
\* "r": a row date,pnl).
NoCsv == <<[kind |-> "missing"]>>

PnlRow(d, p) == [kind |-> "r", date |-> d, pnl |-> p]

PnlHeader == [kind |-> "h", date |-> None, pnl |-> 0]

DefaultDay == [cards_count |-> 0, realized_loss_usdt |-> 0]

EmptyRiskState == [days |-> EmptyMap, last_trigger_by_symbol |-> EmptyMap]

\* The files a run starts with: the PnL ledger and the risk state file (created
\* empty by __init__ when missing, kept when present).
InitialFiles ==
    { [csv |-> NoCsv, state |-> EmptyRiskState],
      [csv |-> NoCsv,
       state |-> [days |-> MapSet(EmptyMap, 0, [cards_count |-> 0, realized_loss_usdt |-> 3]),
                  last_trigger_by_symbol |-> EmptyMap]],
      [csv |-> <<PnlHeader, PnlRow(0, 0 - 1), [kind |-> "b", date |-> None, pnl |-> 0],
                 PnlRow(0, 2), PnlRow(1, 0 - 2), PnlRow(1, 0 - 1)>>,
       state |-> EmptyRiskState] }

VARIABLES
    \* RiskEngine
    kill_switch,          \* self.kill_switch
    pnl_csv,              \* the file at self.pnl_csv_path
    risk_state,           \* the JSON file at self.state_path
    \* SignalService
    test_emit_enabled,    \* settings.test_emit_enabled
    last_test_emit_ts,    \* self._last_test_emit_ts_by_symbol
    \* environment and observation of the risk part
    rnow,                 \* the wall clock, minutes
    decision,             \* the RiskDecision a direct evaluate() call just returned
    lastCard,             \* per symbol: when evaluate_symbol last returned a card
    lastStrategyCard,     \* per symbol: when it last returned a strategy card
    minGap,               \* the least time between two cards of one symbol
    minStrategyGap,       \* the least time between two strategy cards of one symbol
    cardKinds,            \* the kinds of card returned so far
    unguarded             \* record_trigger was called without an allowed evaluate

riskVars ==
    <<kill_switch, pnl_csv, risk_state, test_emit_enabled, last_test_emit_ts,
      rnow, decision, lastCard, lastStrategyCard, minGap, minStrategyGap, cardKinds,
      unguarded>>

emitVars == <<lastCard, lastStrategyCard, minGap, minStrategyGap, cardKinds>>

(***************************************************************************)
(* SourceManager over DataStore.  Monotonic and local wall time are one    *)
(* clock, now_mono, in seconds; the corrected time is that in ms plus              *)
(* the skew.  refresh() runs as a sequence of steps (pc): the stream  *)
(* drain, the staleness evaluation and, in rest mode, the REST polls and   *)
(* the recovery attempt.                                                   *)
(***************************************************************************)

\* The last second of a run.
MaxNow == 2


\* The latest open time (in minutes) of a streamed candle.
MaxOpenTime == 1


\* Server time minus local time.
ClockSkewMs == 2000

MsPerSec == 1000

\* SourceManager.__init__ arguments of the runs, scaled down.
stale_seconds == 1

kline_stale_ms == 1500

ws_backoff_min == 1

ws_backoff_max == 3

rest_price_poll_seconds == 1

rest_kline_poll_seconds == 2

premiumindex_poll_seconds == 1

funding_poll_seconds == 2

oi_poll_seconds == 1

ws_recover_good_ticks == 2

state_sync_klines == 2

\* The 120 of max(120, self.state_sync_klines), scaled like state_sync_klines.
MinRestPollKlines == 2

\* DataStore(max_klines=1440), scaled.
max_klines == 3

\* The longest batch of price ticks one read_events() returns: what a recovery
\* needs.
MaxBatch == ws_recover_good_ticks

\* The most fresh ticks counted while resyncs keep failing.
MaxGoodTicks == ws_recover_good_ticks + 1

VARIABLES
    \* SourceManager
    preferred_mode,         \* self.preferred_mode
    mode,                   \* self._mode
    ws_good_ticks,          \* self._ws_good_ticks
    ws_backoff,             \* self._ws_backoff
    ws_next_retry_at,       \* self._ws_next_retry_at
    last_rest_price_poll,   \* self._last_rest_price_poll
    last_rest_kline_poll,   \* self._last_rest_kline_poll
    \* DataStore
    ds_mode,                \* DataStore._mode
    klines,                 \* per symbol: len(DataStore._klines[symbol])
    last_ws_kline_open_time,
    last_price_ts,
    last_kline_recv_ts,
    \* the stream capability
    ws_connected,           \* ws_client.connected
    \* the driver
    now_mono,               \* time.monotonic() and time.time(), seconds
    pc,                     \* the step of refresh() to run next
    obs,                    \* what the running (or last) refresh() did
    ever_ws,                \* the mode has been ws
    quiet_since,            \* when the stream last delivered an event or the mode became ws
    last_premium_poll,      \* SourceManager._last_premium_poll
    last_funding_poll,      \* SourceManager._last_funding_poll
    last_oi_poll,           \* SourceManager._last_oi_poll
    derivatives             \* DataStore: per symbol, the derivative values and their times

derivVars == <<last_premium_poll, last_funding_poll, last_oi_poll, derivatives>>

smVars ==
    <<preferred_mode, mode, ws_good_ticks, ws_backoff, ws_next_retry_at,
      last_rest_price_poll, last_rest_kline_poll, ds_mode, klines,
      last_ws_kline_open_time, last_price_ts, last_kline_recv_ts,
      ws_connected, now_mono, pc, obs, ever_ws, quiet_since, derivVars>>

(***************************************************************************)
(* Arbitrator.choose_best on one candidate list, context and last-sent     *)
(* lookup.  Times are in the unit of dedupe_window_minutes.                *)
(***************************************************************************)

VARIABLES
    arb_cards,        \* cards: the candidate list
    arb_symbol,       \* ctx.symbol
    arb_timestamp,    \* ctx.timestamp
    arb_last_sent,    \* last_sent_lookup, per symbol
    arb_result        \* what choose_best returned: <<>> (None) or <<card>>

arbVars == <<arb_cards, arb_symbol, arb_timestamp, arb_last_sent, arb_result>>

(***************************************************************************)
(* A DataStore of its own, under a sequence of its operations; the time of *)
(* an operation is its place in the sequence.                              *)
(***************************************************************************)
VARIABLES
    ds,               \* the fields of the DataStore
    ds_ops,           \* the number of operations so far
    ds_op,            \* the last operation
    lock,             \* DataStore._lock: the thread that holds it, or "none"
    threads,          \* per thread, the operation it is in and the writes it has done
    snap,             \* the last SymbolSnapshot returned, or NoSnap
    committed         \* the fields as the last complete operation left them

thVars == <<lock, threads, snap, committed>>

dsVars == <<ds, ds_ops, ds_op, thVars>>

(***************************************************************************)
(* A ClockSync of its own.  time.time() and time.monotonic() advance       *)
(* together; one unit is a second of the one and 1000 ms of the other.     *)
(***************************************************************************)
VARIABLES
    clock,            \* ClockSync.state and ClockSync._next_refresh_mono
    clock_time,       \* the local clock
    clock_call        \* the last call of the ClockSync and what it did

clockVars == <<clock, clock_time, clock_call>>

(***************************************************************************)
(* derivatives_are_fresh and the part of evaluate_symbol around it, on a   *)
(* snapshot and a corrected time of their own.                             *)
(***************************************************************************)
VARIABLES
    gate_in,          \* the snapshot, now_ms_corrected and what the strategies give
    gate_out          \* the DerivativesGate and whether evaluate_symbol returned a card

gateVars == <<gate_in, gate_out>>

(***************************************************************************)
(* SignalService.run_forever, statement by statement.                      *)
(***************************************************************************)
VARIABLES
    drv               \* where the loop is and what the running tick did:
                      \*   pc       the statement to run next
                      \*   tick     the number of the iteration
                      \*   i        the place in settings.symbols of the next symbol
                      \*   faults   the REST and stream calls that raised in refresh()
                      \*   raised   the call whose exception left the try block
                      \*   cards    the symbols evaluate_symbol returned a card for
                      \*   sinks    per such symbol, what became of each send
                      \*   survived the calls whose exception earlier ticks handled
                      \*   running  run_forever has not returned

drvVars == <<drv>>

(***************************************************************************)
(* aggregate_klines_to_window on a candle list of its own.                 *)
(***************************************************************************)
VARIABLES
    agg_in,           \* candles_1m
    agg_out           \* what the call returned, or NotAggregated

aggVars == <<agg_in, agg_out>>

VARIABLES
    oi_in,            \* oi_windows
    oi_out            \* what compute_oi_zscore_15m returned, or NoZscoreCall

oiVars == <<oi_in, oi_out>>

VARIABLES
    strat_in,         \* the strategy and the SignalContext, as far as generate reads it
    strat_out         \* what generate did, or NotGenerated

stratVars == <<strat_in, strat_out>>

vars == <<riskVars, smVars, arbVars, dsVars, clockVars, gateVars, drvVars, aggVars, oiVars, stratVars>>

\* What the actions of one component leave alone.
notRisk == <<smVars, arbVars, dsVars, clockVars, gateVars, drvVars, aggVars, oiVars, stratVars>>

notSM == <<riskVars, arbVars, dsVars, clockVars, gateVars, drvVars, aggVars, oiVars, stratVars>>

notArb == <<riskVars, smVars, dsVars, clockVars, gateVars, drvVars, aggVars, oiVars, stratVars>>

notDs == <<riskVars, smVars, arbVars, clockVars, gateVars, drvVars, aggVars, oiVars, stratVars>>

notClock == <<riskVars, smVars, arbVars, dsVars, gateVars, drvVars, aggVars, oiVars, stratVars>>

notGate == <<riskVars, smVars, arbVars, dsVars, clockVars, drvVars, aggVars, oiVars, stratVars>>

notDriver == <<riskVars, smVars, arbVars, dsVars, clockVars, gateVars, aggVars, oiVars, stratVars>>

notAgg == <<riskVars, smVars, arbVars, dsVars, clockVars, gateVars, drvVars, oiVars, stratVars>>

\* now.date().isoformat()
DateKey(now) == now \div MinutesPerDay

\* datetime.isoformat(): the date and the time of day, UTC.
IsoFormat(now) == [date |-> now \div MinutesPerDay, minute |-> now % MinutesPerDay, tz |-> "+00:00"]

\* RiskEngine._parse_timestamp
ParseTimestamp(raw) == raw.date * MinutesPerDay + raw.minute

\* RiskEngine._resolve_realized_loss: the CSV's negative rows of the date, or the
\* state's value when there is no CSV.
RECURSIVE SumLoss(_, _)
SumLoss(rows, date_key) ==
    IF rows = <<>> THEN 0
    ELSE LET row == Head(rows)
             rest == SumLoss(Tail(rows), date_key)
         IN  IF row.kind # "r" THEN rest
             ELSE IF row.date # date_key THEN rest
             ELSE IF row.pnl < 0 THEN rest + (0 - row.pnl)
             ELSE rest

ResolveRealizedLoss(date_key, day_state) ==
    IF pnl_csv = NoCsv THEN day_state.realized_loss_usdt
    ELSE SumLoss(pnl_csv, date_key)

\* Mutants of _cooldown_until: no cooldown added; any symbol's trigger counts.
CooldownUntil_NoWindow(symbol, state) ==
    IF symbol \notin DOMAIN state.last_trigger_by_symbol THEN None
    ELSE state.last_trigger_by_symbol[symbol].date * MinutesPerDay
         + state.last_trigger_by_symbol[symbol].minute

CooldownUntil_AnySymbol(symbol, state) ==
    IF DOMAIN state.last_trigger_by_symbol = {} THEN None
    ELSE LET s == CHOOSE x \in DOMAIN state.last_trigger_by_symbol : TRUE
         IN  state.last_trigger_by_symbol[s].date * MinutesPerDay
             + state.last_trigger_by_symbol[s].minute + cooldown_after_trigger_minutes

\* RiskEngine._cooldown_until
CooldownUntil(symbol, state) ==
    IF symbol \notin DOMAIN state.last_trigger_by_symbol THEN None
    ELSE ParseTimestamp(state.last_trigger_by_symbol[symbol]) + cooldown_after_trigger_minutes

\* RiskEngine.get_last_trigger_time
GetLastTriggerTime(symbol, state) ==
    IF symbol \notin DOMAIN state.last_trigger_by_symbol THEN None
    ELSE ParseTimestamp(state.last_trigger_by_symbol[symbol])

Deny(reason) == [allowed |-> FALSE, reason |-> reason]

\* Mutants of evaluate: without the kill switch; the cooldown checked before the
\* daily cap; the daily cap off by one.
RiskEvaluate_NoKill(state, symbol, now) ==
    LET date_key == DateKey(now)
        day_state == MapGet(state.days, date_key, DefaultDay)
        realized_loss == ResolveRealizedLoss(date_key, day_state)
        cooldown_until == CooldownUntil(symbol, state)
    IN  IF realized_loss >= max_daily_loss_usdt THEN Deny("max_daily_loss_exceeded")
        ELSE IF day_state.cards_count >= max_cards_per_day
             THEN Deny("max_cards_per_day_exceeded")
        ELSE IF cooldown_until # None /\ now < cooldown_until
             THEN Deny("symbol_cooldown_active")
        ELSE [allowed |-> TRUE, reason |-> "ok"]

RiskEvaluate_CooldownFirst(state, symbol, now) ==
    IF kill_switch THEN Deny("kill_switch_enabled")
    ELSE LET date_key == DateKey(now)
             day_state == MapGet(state.days, date_key, DefaultDay)
             realized_loss == ResolveRealizedLoss(date_key, day_state)
             cooldown_until == CooldownUntil(symbol, state)
         IN  IF realized_loss >= max_daily_loss_usdt THEN Deny("max_daily_loss_exceeded")
             ELSE IF cooldown_until # None /\ now < cooldown_until
                  THEN Deny("symbol_cooldown_active")
             ELSE IF day_state.cards_count >= max_cards_per_day
                  THEN Deny("max_cards_per_day_exceeded")
             ELSE [allowed |-> TRUE, reason |-> "ok"]

RiskEvaluate_CapOffByOne(state, symbol, now) ==
    IF kill_switch THEN Deny("kill_switch_enabled")
    ELSE LET date_key == DateKey(now)
             day_state == MapGet(state.days, date_key, DefaultDay)
             realized_loss == ResolveRealizedLoss(date_key, day_state)
             cooldown_until == CooldownUntil(symbol, state)
         IN  IF realized_loss >= max_daily_loss_usdt THEN Deny("max_daily_loss_exceeded")
             ELSE IF day_state.cards_count > max_cards_per_day
                  THEN Deny("max_cards_per_day_exceeded")
             ELSE IF cooldown_until # None /\ now < cooldown_until
                  THEN Deny("symbol_cooldown_active")
             ELSE [allowed |-> TRUE, reason |-> "ok"]

\* RiskEngine.evaluate
RiskEvaluate(state, symbol, now) ==
    IF kill_switch THEN Deny("kill_switch_enabled")
    ELSE LET date_key == DateKey(now)
             day_state == MapGet(state.days, date_key, DefaultDay)
             realized_loss == ResolveRealizedLoss(date_key, day_state)
             cooldown_until == CooldownUntil(symbol, state)
         IN  IF realized_loss >= max_daily_loss_usdt THEN Deny("max_daily_loss_exceeded")
             ELSE IF day_state.cards_count >= max_cards_per_day
                  THEN Deny("max_cards_per_day_exceeded")
             ELSE IF cooldown_until # None /\ now < cooldown_until
                  THEN Deny("symbol_cooldown_active")
             ELSE [allowed |-> TRUE, reason |-> "ok"]

\* RiskEngine.record_trigger: the state it saves.
RecordTriggerState(state, symbol, now) ==
    LET date_key == DateKey(now)
        day_state == MapGet(state.days, date_key, DefaultDay)
    IN  [days |-> MapSet(state.days, date_key,
                         [day_state EXCEPT !.cards_count = day_state.cards_count + 1]),
         last_trigger_by_symbol |-> MapSet(state.last_trigger_by_symbol, symbol, IsoFormat(now))]

NoDecision == [symbol |-> "", allowed |-> FALSE, reason |-> ""]

Min(a, b) == IF a <= b THEN a ELSE b

\* The least gap seen, with a new card at t after one at last (gaps are kept up
\* to the cooldown).
NoteGap(gap, last, t) ==
    IF last = None THEN gap
    ELSE IF gap = None THEN Min(t - last, cooldown_after_trigger_minutes)
    ELSE Min(gap, t - last)

RiskInit ==
    /\ kill_switch \in BOOLEAN
    /\ \E f \in InitialFiles : pnl_csv = f.csv /\ risk_state = f.state
    /\ test_emit_enabled \in BOOLEAN
    /\ last_test_emit_ts = EmptyMap
    /\ rnow = 0
    /\ decision = NoDecision
    /\ lastCard = [s \in SymbolSet |-> None]
    /\ lastStrategyCard = [s \in SymbolSet |-> None]
    /\ minGap = None
    /\ minStrategyGap = None
    /\ cardKinds = {}
    /\ unguarded = FALSE

\* The wall clock advances.
RiskTick ==
    /\ rnow < MaxRiskTime
    /\ rnow' = rnow + 1
    /\ decision' = NoDecision
    /\ UNCHANGED notRisk
    /\ UNCHANGED <<kill_switch, pnl_csv, risk_state, test_emit_enabled, last_test_emit_ts,
                   emitVars, unguarded>>

\* A direct call engine.evaluate(symbol, now) at the current time
\* (tests/test_risk_engine.py).
RiskEvaluateCall ==
    \E symbol \in SymbolSet :
        /\ decision' = [symbol |-> symbol,
                        allowed |-> RiskEvaluate(risk_state, symbol, rnow).allowed,
                        reason |-> RiskEvaluate(risk_state, symbol, rnow).reason]
        /\ UNCHANGED notRisk
        /\ UNCHANGED <<kill_switch, pnl_csv, risk_state, test_emit_enabled, last_test_emit_ts,
                       rnow, emitVars, unguarded>>

\* A direct call engine.record_trigger(symbol, now) with no evaluate before it.
RecordTriggerCall ==
    \E symbol \in SymbolSet :
        /\ MapGet(risk_state.days, DateKey(rnow), DefaultDay).cards_count < MaxCardsCount
        /\ risk_state' = RecordTriggerState(risk_state, symbol, rnow)
        /\ unguarded' = TRUE
        /\ decision' = NoDecision
        /\ UNCHANGED notRisk
        /\ UNCHANGED <<kill_switch, pnl_csv, test_emit_enabled, last_test_emit_ts, rnow,
                       emitVars>>

(***************************************************************************)
(* SignalService.evaluate_symbol.  What the snapshot, the derivatives gate *)
(* and the strategies yield is an input (stage); the arbitrator's dedupe   *)
(* window, the risk gate and the test-emit mode are computed.              *)
(***************************************************************************)

\* Where evaluate_symbol gets to on the data of the tick.
Stages ==
    { "data_not_ready", "derivatives_stale", "derivatives_missing", "atr_warmup",
      "atr_unavailable", "strategy_no_card", "candidates" }

\* Arbitrator.choose_best, lines 43-47: the per-symbol dedupe window.
InDedupeWindow(symbol, state, now) ==
    LET last_sent == GetLastTriggerTime(symbol, state)
    IN  last_sent # None /\ now - last_sent <= dedupe_window_minutes

\* should_emit_test
ShouldEmitTest(last_emit_ts, now_ts, interval) ==
    IF last_emit_ts = None THEN TRUE ELSE now_ts - last_emit_ts >= interval

\* SignalService._maybe_test_emit returns a card (buildable: _build_test_emit_card
\* returns one, i.e. calculate_position_usdt accepts entry and entry * 0.998).
MaybeTestEmit(symbol, now_ts, buildable) ==
    /\ test_emit_enabled
    /\ symbol \in test_emit_symbols
    /\ ShouldEmitTest(MapGet(last_test_emit_ts, symbol, None), now_ts, test_emit_interval_minutes)
    /\ buildable

\* The branch of evaluate_symbol taken: "none" (return None, None without a test
\* emit attempt), "fallback" (the branches that try _maybe_test_emit) or "emit".
EvaluateBranch(symbol, stage, now) ==
    IF stage \in {"data_not_ready", "derivatives_stale", "derivatives_missing"} THEN "none"
    ELSE IF stage \in {"atr_warmup", "atr_unavailable", "strategy_no_card"} THEN "fallback"
    ELSE IF InDedupeWindow(symbol, risk_state, now) THEN "fallback"
    ELSE IF ~RiskEvaluate(risk_state, symbol, now).allowed THEN "fallback"
    ELSE "emit"

\* SignalService.evaluate_symbol for one symbol of a tick; the clock may advance
\* (by late) between risk_engine.evaluate and risk_engine.record_trigger.
EvaluateSymbol ==
    \E symbol \in SymbolSet, stage \in Stages, buildable \in BOOLEAN, late \in 0..1 :
        LET branch == EvaluateBranch(symbol, stage, rnow)
            test == branch = "fallback" /\ MaybeTestEmit(symbol, rnow, buildable)
            then == IF branch = "emit" THEN rnow + late ELSE rnow
        IN  /\ then <= MaxRiskTime
            /\ rnow' = then
            /\ risk_state' = IF branch = "emit"
                              THEN RecordTriggerState(risk_state, symbol, then)
                              ELSE risk_state
            /\ last_test_emit_ts' = IF test THEN MapSet(last_test_emit_ts, symbol, rnow)
                                    ELSE last_test_emit_ts
            /\ lastCard' = IF branch = "emit" \/ test
                           THEN [lastCard EXCEPT ![symbol] = then] ELSE lastCard
            /\ lastStrategyCard' = IF branch = "emit"
                                   THEN [lastStrategyCard EXCEPT ![symbol] = then]
                                   ELSE lastStrategyCard
            /\ minGap' = IF branch = "emit" \/ test
                         THEN NoteGap(minGap, lastCard[symbol], then) ELSE minGap
            /\ minStrategyGap' = IF branch = "emit"
                                 THEN NoteGap(minStrategyGap, lastStrategyCard[symbol], then)
                                 ELSE minStrategyGap
            /\ cardKinds' = IF branch = "emit" THEN cardKinds \cup {"strategy"}
                            ELSE IF test THEN cardKinds \cup {"test_emit_dryrun"}
                            ELSE cardKinds
            /\ decision' = NoDecision
            /\ UNCHANGED notRisk
            /\ UNCHANGED <<kill_switch, pnl_csv, test_emit_enabled, unguarded>>

\* risk_engine.evaluate then risk_engine.record_trigger as evaluate_symbol calls
\* them (service.py lines 431-442), on their own.
GuardedTrigger ==
    \E symbol \in SymbolSet, late \in 0..1 :
        /\ RiskEvaluate(risk_state, symbol, rnow).allowed
        /\ rnow + late <= MaxRiskTime
        /\ rnow' = rnow + late
        /\ risk_state' = RecordTriggerState(risk_state, symbol, rnow + late)
        /\ decision' = NoDecision
        /\ UNCHANGED notRisk
        /\ UNCHANGED <<kill_switch, pnl_csv, test_emit_enabled, last_test_emit_ts, emitVars,
                       unguarded>>

RiskNext == RiskTick \/ RiskEvaluateCall \/ RecordTriggerCall \/ GuardedTrigger

ServiceNext == RiskTick \/ EvaluateSymbol

\* ClockSync.now_ms returns the local time or the corrected time (local plus the
\* skew of the last server-time sync), as the sync state has it at the call.
ClockOffsets == {0, ClockSkewMs}

\* The values one now_ms_corrected() call can return at the time now_mono.
NowMs(offset) == now_mono * MsPerSec + offset

\* _now_dt_corrected(): the timestamps of the store are taken on a synced clock.
NowDt == NowMs(0)

\* A datetime is held as its epoch milliseconds (_now_dt_corrected builds it from
\* now_ms / 1000 and dt_to_ms takes int(timestamp() * 1000), which gives the
\* milliseconds back).
DtToMs(ts) == IF ts = None THEN None ELSE ts

RawAgeMs(now_ms, ts_ms) == IF ts_ms = None THEN None ELSE now_ms - ts_ms

Max(a, b) == IF a >= b THEN a ELSE b

SymbolIndex(s) == CHOOSE i \in 1..Len(Symbols) : Symbols[i] = s

\* The symbols a loop over self.symbols has handled when the call for the
\* symbol at raise_at raises (0: no call raises).
Handled(raise_at) ==
    IF raise_at = 0 THEN SymbolSet ELSE {Symbols[j] : j \in 1..(raise_at - 1)}

(***************************************************************************)
(* DataStore, as far as the SourceManager's mode depends on it: the number *)
(* of candles per symbol and the receipt timestamps.                       *)
(***************************************************************************)

\* The DataStore fields of the model, as one value.
Store ==
    [klines |-> klines, last_ws_kline_open_time |-> last_ws_kline_open_time,
     last_price_ts |-> last_price_ts, last_kline_recv_ts |-> last_kline_recv_ts]

\* DataStore.update_price
UpdatePrice(store, symbol, ts) ==
    [store EXCEPT !.last_price_ts[symbol] = ts]

\* The stamp of last_kline_recv_ts, the field _evaluate_staleness reads from the
\* snapshot: a streamed candle stamps it.
StampKlineRecv(store, symbol, ts) ==
    [store EXCEPT !.last_kline_recv_ts[symbol] = ts]

\* DataStore.merge_klines with a response of n candles (the deque keeps the last
\* max_klines of them).
MergeKlines(store, symbol, n, ts) ==
    IF n = 0 THEN store
    ELSE [store EXCEPT !.klines[symbol] = Min(n, max_klines),
                       !.last_ws_kline_open_time[symbol] = None]

\* DataStore.upsert_ws_kline
UpsertWsKline(store, symbol, open_time_ms, ts) ==
    LET replace == store.klines[symbol] > 0
                   /\ store.last_ws_kline_open_time[symbol] = open_time_ms
        upserted == [store EXCEPT !.klines[symbol] = IF replace THEN @ ELSE Min(@ + 1, max_klines),
                                  !.last_ws_kline_open_time[symbol] = open_time_ms]
    IN  StampKlineRecv(upserted, symbol, ts)

\* The derivative fields of a symbol; a value is known by the time of its fetch.
NoDerivatives ==
    [s \in SymbolSet |->
        [mark_price |-> None, funding_rate_history |-> None, open_interest |-> None,
         funding_ts |-> None, open_interest_ts |-> None]]

\* DataStore.update_premium_index
UpdatePremiumIndex(deriv, symbol, ts) ==
    [deriv EXCEPT ![symbol].mark_price = ts, ![symbol].funding_ts = ts]

\* DataStore.update_funding_rate_history
UpdateFundingRateHistory(deriv, symbol, ts) ==
    [deriv EXCEPT ![symbol].funding_rate_history = ts, ![symbol].funding_ts = ts]

\* DataStore.update_open_interest
UpdateOpenInterest(deriv, symbol, ts) ==
    [deriv EXCEPT ![symbol].open_interest = ts, ![symbol].open_interest_ts = ts]

(***************************************************************************)
(* What the REST client and the stream return to a call.                   *)
(***************************************************************************)

\* fetch_klines(symbol, limit) returns at most limit candles.
ResponseLens(limit) == {0, limit - 1, limit}

\* One _state_sync_from_rest: the symbol whose fetch_klines raises (0: none) and
\* the number of candles each call before it returns.
SyncOutcomes(limit) ==
    { o \in [raise_at : 0..Len(Symbols), len : ResponseLens(limit)] :
        Handled(o.raise_at) = {} => o.len = limit }

\* One _poll_rest_prices: the symbol whose fetch_price raises (0: none).
PriceOutcomes == [raise_at : 0..Len(Symbols)]

TickBatches == UNION { [1..n -> SymbolSet] : n \in 0..MaxBatch }

KlineBatches ==
    {<<>>} \cup { <<[symbol |-> s, open_time_ms |-> o]>> : s \in SymbolSet, o \in 1..MaxOpenTime }

\* read_events() returns events _apply_ws_events raises on: ticks, then an event
\* of a symbol the DataStore holds no buffer for.
UnappliedReads ==
    { [kind |-> "apply_raise", ticks |-> t, kline_ticks |-> <<>>] :
        t \in {<<>>} \cup { <<s>> : s \in SymbolSet } }

\* read_events(): it raises, or returns price ticks and candle ticks (both only
\* for one symbol).
ReadOutcomes ==
    {[kind |-> "raise", ticks |-> <<>>, kline_ticks |-> <<>>]}
    \cup UnappliedReads
    \cup { r \in [kind : {"ok"}, ticks : TickBatches, kline_ticks : KlineBatches] :
            \/ r.ticks = <<>>
            \/ r.kline_ticks = <<>>
            \/ r.ticks = <<r.kline_ticks[1].symbol>> }

\* _state_sync_from_rest, up to the call that raises.
RECURSIVE SyncFrom(_, _, _, _)
SyncFrom(store, i, outcome, ts) ==
    IF i > Len(Symbols) \/ i = outcome.raise_at THEN store
    ELSE SyncFrom(MergeKlines(store, Symbols[i], outcome.len, ts), i + 1, outcome, ts)

StateSyncFromRest(store, outcome, ts) == SyncFrom(store, 1, outcome, ts)

\* The price updates of _poll_rest_prices, up to the call that raises.
RECURSIVE PricesFrom(_, _, _)
PricesFrom(store, i, outcome) ==
    IF i > Len(Symbols) \/ i = outcome.raise_at THEN store
    ELSE PricesFrom(UpdatePrice(store, Symbols[i], NowDt), i + 1, outcome)

RECURSIVE ApplyTicks(_, _, _)
ApplyTicks(store, ticks, ts) ==
    IF ticks = <<>> THEN store
    ELSE ApplyTicks(UpdatePrice(store, Head(ticks), ts), Tail(ticks), ts)

RECURSIVE ApplyKlineTicks(_, _, _)
ApplyKlineTicks(store, kline_ticks, ts) ==
    IF kline_ticks = <<>> THEN store
    ELSE ApplyKlineTicks(
             UpsertWsKline(store, Head(kline_ticks).symbol, Head(kline_ticks).open_time_ms, ts),
             Tail(kline_ticks), ts)

\* SourceManager._apply_ws_events: the store after it and the fresh ticks it
\* counts; now_dt and now_ms are its two clock readings.
ApplyWsEvents(store, read, now_dt, now_ms) ==
    [store |-> ApplyKlineTicks(ApplyTicks(store, read.ticks, now_dt), read.kline_ticks, now_dt),
     fresh_ticks |-> IF RawAgeMs(now_ms, DtToMs(now_dt)) <= stale_seconds * MsPerSec
                     THEN Len(read.ticks) ELSE 0]

(***************************************************************************)
(* SourceManager.                                                          *)
(***************************************************************************)

\* min(self._ws_backoff * 2, self.ws_backoff_max)
NextBackoff(backoff) == Min(backoff * 2, ws_backoff_max)

\* _safe_state_sync returns True
SafeStateSync_AlwaysTrue(outcome) == TRUE

SafeStateSync(outcome) == outcome.raise_at = 0

\* self._ws_good_ticks >= self.ws_recover_good_ticks
RecoverReady_Strict(good_ticks) == good_ticks > ws_recover_good_ticks

RecoverReady(good_ticks) == good_ticks >= ws_recover_good_ticks

\* price_age_raw is not None and price_age_raw > self.stale_seconds * 1000
PriceStale_Never(price_age_raw) == FALSE

PriceStale(price_age_raw) ==
    price_age_raw # None /\ price_age_raw > stale_seconds * MsPerSec

KlineStale(kline_recv_raw) ==
    kline_recv_raw # None /\ kline_recv_raw > kline_stale_ms

\* The loop of _evaluate_staleness from the symbol at i on: the reason of the
\* first switch, or "none".
RECURSIVE StaleFrom(_, _)
StaleFrom(i, now_ms) ==
    IF i > Len(Symbols) THEN "none"
    ELSE IF PriceStale(RawAgeMs(now_ms, DtToMs(last_price_ts[Symbols[i]]))) THEN "stale"
    ELSE IF KlineStale(RawAgeMs(now_ms, DtToMs(last_kline_recv_ts[Symbols[i]])))
         THEN "kline_stale"
    ELSE StaleFrom(i + 1, now_ms)

\* The SourceManager's and the DataStore's mode after _switch_mode(to_mode).
SwitchedModes_ModeOnly(from_mode, store_mode, to_mode) ==
    [mode |-> to_mode, ds_mode |-> store_mode]

SwitchedModes(from_mode, store_mode, to_mode) ==
    IF from_mode = to_mode THEN [mode |-> from_mode, ds_mode |-> store_mode]
    ELSE [mode |-> to_mode, ds_mode |-> to_mode]

\* _switch_mode sets DataStore's mode with its own, unless the mode is to_mode.
SwitchMode_Stay(to_mode) ==
    UNCHANGED <<mode, ds_mode>>

SwitchMode(to_mode) ==
    /\ mode' = SwitchedModes(mode, ds_mode, to_mode).mode
    /\ ds_mode' = SwitchedModes(mode, ds_mode, to_mode).ds_mode

SetStore(store) ==
    /\ klines' = store.klines
    /\ last_ws_kline_open_time' = store.last_ws_kline_open_time
    /\ last_price_ts' = store.last_price_ts
    /\ last_kline_recv_ts' = store.last_kline_recv_ts

SetStoreInit(store) ==
    /\ klines = store.klines
    /\ last_ws_kline_open_time = store.last_ws_kline_open_time
    /\ last_price_ts = store.last_price_ts
    /\ last_kline_recv_ts = store.last_kline_recv_ts

storeVars == <<klines, last_ws_kline_open_time, last_price_ts, last_kline_recv_ts>>

EmptyStore ==
    [klines |-> [s \in SymbolSet |-> 0],
     last_ws_kline_open_time |-> [s \in SymbolSet |-> None],
     last_price_ts |-> [s \in SymbolSet |-> None],
     last_kline_recv_ts |-> [s \in SymbolSet |-> None]]

\* What a refresh() that starts now_mono has done so far: nothing.
\* stream_raised: read_events() or _apply_ws_events raised in this refresh();
\* closed: close() was called after the last time one of them raised;
\* connect_hold: connect() was called, and the time the failures before it had
\* put off the next connect to (hold_until, kept from call to call);
\* deriv_failed: the derivative fetches that raised.
NewObsFrom(hold) ==
    [start_mode |-> mode, had_ws |-> ever_ws, finished |-> "running", drained |-> "none",
     price_age_max |-> None, stale_switch |-> "none", recover |-> "not_run",
     fresh_ticks |-> 0, good_total |-> 0, sync_done |-> 0, sync_raised |-> FALSE,
     closed |-> FALSE, stream_raised |-> FALSE, connect_hold |-> None,
     hold_until |-> hold, deriv_failed |-> {}]

NewObs == NewObsFrom(obs.hold_until)

\* A connect() or read_events() failure now, under a retry delay of delay.
Failed(seen, delay) ==
    [seen EXCEPT !.hold_until = Max(@, now_mono + delay)]

\* The greatest price raw age over the symbols (None: no symbol has a price).
PriceAgeMax(now_ms) ==
    IF \A s \in SymbolSet : last_price_ts[s] = None THEN None
    ELSE LET ages == {RawAgeMs(now_ms, DtToMs(last_price_ts[s])) :
                        s \in {t \in SymbolSet : last_price_ts[t] # None}}
         IN  CHOOSE a \in ages : \A b \in ages : b <= a

\* SourceManager.__init__ with a fresh DataStore, at time 0.
SMInit ==
    /\ now_mono = 0
    /\ preferred_mode \in {"ws", "rest"}
    /\ \E sync \in SyncOutcomes(state_sync_klines) :
           SetStoreInit(StateSyncFromRest(EmptyStore, sync, NowDt))
    /\ \E connect_ok \in (IF preferred_mode = "ws" THEN BOOLEAN ELSE {FALSE}) :
           /\ ws_connected = connect_ok
           /\ mode = (IF connect_ok THEN "ws" ELSE "rest")
           /\ ds_mode = (IF connect_ok THEN "ws" ELSE "rest")
           /\ ws_next_retry_at =
                  (IF preferred_mode = "ws" /\ ~connect_ok THEN now_mono + ws_backoff_min ELSE 0)
           /\ ws_backoff =
                  (IF preferred_mode = "ws" /\ ~connect_ok THEN NextBackoff(ws_backoff_min)
                   ELSE ws_backoff_min)
    /\ ws_good_ticks = 0
    /\ last_rest_price_poll = 0
    /\ last_rest_kline_poll = 0
    /\ pc = "refresh"
    /\ ever_ws = (mode = "ws")
    /\ quiet_since = 0
    /\ last_premium_poll = 0
    /\ last_funding_poll = 0
    /\ last_oi_poll = 0
    /\ derivatives = NoDerivatives
    /\ obs = LET built == [NewObsFrom(0) EXCEPT !.finished = "constructed"]
                 called == [built EXCEPT !.connect_hold = 0]
             IN  IF preferred_mode # "ws" THEN built
                 ELSE IF ws_connected THEN called
                 ELSE Failed(called, ws_backoff_min)

\* The driver sleeps between two refresh() calls.
Tick ==
    /\ UNCHANGED <<notSM, derivVars>>
    /\ pc = "idle"
    /\ now_mono < MaxNow
    /\ now_mono' = now_mono + 1
    /\ pc' = "refresh"
    /\ UNCHANGED <<preferred_mode, mode, ws_good_ticks, ws_backoff, ws_next_retry_at,
                   last_rest_price_poll, last_rest_kline_poll, ds_mode, storeVars,
                   ws_connected, obs, ever_ws, quiet_since>>

\* refresh() starts: _attempt_ws_events, with a read_events() outcome of reads.
AttemptWsEventsOn(reads) ==
    /\ UNCHANGED <<notSM, derivVars>>
    /\ pc = "refresh"
    /\ pc' = "stale"
    /\ IF mode # "ws" \/ ~ws_connected
       THEN /\ obs' = NewObs
            /\ UNCHANGED <<mode, ds_mode, ws_connected, storeVars, quiet_since>>
       ELSE \E read \in reads :
                IF read.kind = "raise"
                THEN /\ SwitchMode("rest")
                     /\ ws_connected' = FALSE
                     /\ obs' = Failed([NewObs EXCEPT !.drained = "raised", !.closed = TRUE,
                                                     !.stream_raised = TRUE], ws_backoff)
                     /\ UNCHANGED <<storeVars, quiet_since>>
                ELSE IF read.kind = "apply_raise"
                THEN /\ SetStore(ApplyTicks(Store, read.ticks, NowDt))
                     /\ SwitchMode("rest")
                     /\ ws_connected' = FALSE
                     /\ quiet_since' = now_mono
                     /\ obs' = [NewObs EXCEPT !.drained = "apply_raised", !.closed = TRUE,
                                              !.stream_raised = TRUE]
                ELSE /\ SetStore(ApplyWsEvents(Store, read, NowDt, NowMs(0)).store)
                     /\ quiet_since' = IF read.ticks = <<>> /\ read.kline_ticks = <<>>
                                         THEN quiet_since ELSE now_mono
                     /\ obs' = [NewObs EXCEPT !.drained = "ok"]
                     /\ UNCHANGED <<mode, ds_mode, ws_connected>>
    /\ UNCHANGED <<preferred_mode, ws_good_ticks, ws_backoff, ws_next_retry_at,
                   last_rest_price_poll, last_rest_kline_poll, now_mono, ever_ws>>

AttemptWsEvents == AttemptWsEventsOn(ReadOutcomes)

\* _evaluate_staleness
EvaluateStaleness ==
    /\ UNCHANGED <<notSM, derivVars>>
    /\ pc = "stale"
    /\ pc' = "derivatives"
    /\ IF mode # "ws"
       THEN UNCHANGED <<mode, ds_mode, obs>>
       ELSE \E offset \in ClockOffsets :
                LET reason == StaleFrom(1, NowMs(offset))
                IN  /\ obs' = [obs EXCEPT !.price_age_max = PriceAgeMax(NowMs(offset)),
                                          !.stale_switch = reason]
                    /\ IF reason = "none"
                       THEN UNCHANGED <<mode, ds_mode>>
                       ELSE SwitchMode("rest")
    /\ UNCHANGED <<preferred_mode, ws_good_ticks, ws_backoff, ws_next_retry_at,
                   last_rest_price_poll, last_rest_kline_poll, storeVars,
                   ws_connected, now_mono, ever_ws, quiet_since>>

\* The fetches of the derivative polls, by poll and symbol.
DerivPolls == {"premium", "funding", "oi"}

DerivFetches == DerivPolls \X SymbolSet

\* The fetches that raise in one _poll_derivatives: none, one, or all.
DerivOutcomes == {{}} \cup { {f} : f \in DerivFetches } \cup {DerivFetches}

\* The symbols a derivative poll updates when the fetches of failed raise: the
\* except inside the loop goes on with the next symbol.
DerivUpdated_StopAtFirst(poll, failed) ==
    {s \in SymbolSet :
        \A j \in 1..SymbolIndex(s) : <<poll, Symbols[j]>> \notin failed}

DerivUpdated(poll, failed) == {s \in SymbolSet : <<poll, s>> \notin failed}

\* now_mono - self._last_premium_poll >= self.premiumindex_poll_seconds, and so on
DerivDue(poll) ==
    CASE poll = "premium" -> now_mono - last_premium_poll >= premiumindex_poll_seconds
      [] poll = "funding" -> now_mono - last_funding_poll >= funding_poll_seconds
      [] poll = "oi" -> now_mono - last_oi_poll >= oi_poll_seconds

\* The three loops of _poll_derivatives over the DataStore.
RECURSIVE UpdateEach(_, _, _)
UpdateEach(deriv, poll, symbols) ==
    IF symbols = {} THEN deriv
    ELSE LET s == CHOOSE x \in symbols : TRUE
             next == CASE poll = "premium" -> UpdatePremiumIndex(deriv, s, NowDt)
                       [] poll = "funding" -> UpdateFundingRateHistory(deriv, s, NowDt)
                       [] poll = "oi" -> UpdateOpenInterest(deriv, s, NowDt)
         IN  UpdateEach(next, poll, symbols \ {s})

PollOne(deriv, poll, failed) ==
    IF DerivDue(poll) THEN UpdateEach(deriv, poll, DerivUpdated(poll, failed)) ELSE deriv

\* _poll_derivatives with the fetches of one of outcomes raising, then the end
\* of refresh() if the mode is not rest.
PollDerivativesOn(outcomes) ==
    /\ UNCHANGED notSM
    /\ pc = "derivatives"
    /\ \E failed \in outcomes :
           /\ \A f \in failed : DerivDue(f[1])
           /\ derivatives' =
                  PollOne(PollOne(PollOne(derivatives, "premium", failed), "funding", failed),
                          "oi", failed)
           /\ obs' = [obs EXCEPT !.deriv_failed = failed,
                                 !.finished = IF mode = "rest" THEN @ ELSE "returned"]
    /\ last_premium_poll' = IF DerivDue("premium") THEN now_mono ELSE last_premium_poll
    /\ last_funding_poll' = IF DerivDue("funding") THEN now_mono ELSE last_funding_poll
    /\ last_oi_poll' = IF DerivDue("oi") THEN now_mono ELSE last_oi_poll
    /\ pc' = IF mode = "rest" THEN "rest_prices" ELSE "idle"
    /\ UNCHANGED <<preferred_mode, mode, ws_good_ticks, ws_backoff, ws_next_retry_at,
                   last_rest_price_poll, last_rest_kline_poll, ds_mode, storeVars,
                   ws_connected, now_mono, ever_ws, quiet_since>>

\* No derivative fetch raises.
PollDerivativesOk == PollDerivativesOn({{}})

PollDerivatives == PollDerivativesOn(DerivOutcomes)

\* _poll_rest_prices with a REST outcome of outcomes; a fetch_price that raises
\* ends refresh().
PollRestPricesOn(outcomes) ==
    /\ UNCHANGED <<notSM, derivVars>>
    /\ pc = "rest_prices"
    /\ IF now_mono - last_rest_price_poll < rest_price_poll_seconds
       THEN /\ pc' = "rest_klines"
            /\ UNCHANGED <<storeVars, last_rest_price_poll, obs>>
       ELSE \E outcome \in outcomes :
                /\ SetStore(PricesFrom(Store, 1, outcome))
                /\ IF outcome.raise_at = 0
                   THEN /\ last_rest_price_poll' = now_mono
                        /\ pc' = "rest_klines"
                        /\ obs' = obs
                   ELSE /\ pc' = "idle"
                        /\ obs' = [obs EXCEPT !.finished = "raised"]
                        /\ UNCHANGED last_rest_price_poll
    /\ UNCHANGED <<preferred_mode, mode, ws_good_ticks, ws_backoff, ws_next_retry_at,
                   last_rest_kline_poll, ds_mode, ws_connected, now_mono,
                   ever_ws, quiet_since>>

PollRestPrices == PollRestPricesOn(PriceOutcomes)

\* max(120, self.state_sync_klines)
RestPollLimit == Max(MinRestPollKlines, state_sync_klines)

\* _poll_rest_klines with a REST outcome of outcomes; a fetch_klines that raises
\* ends refresh().
PollRestKlinesOn(outcomes) ==
    /\ UNCHANGED <<notSM, derivVars>>
    /\ pc = "rest_klines"
    /\ IF now_mono - last_rest_kline_poll < rest_kline_poll_seconds
       THEN /\ pc' = "recover"
            /\ UNCHANGED <<storeVars, last_rest_kline_poll, obs>>
       ELSE \E outcome \in outcomes :
                /\ SetStore(StateSyncFromRest(Store, outcome, NowDt))
                /\ IF outcome.raise_at = 0
                   THEN /\ last_rest_kline_poll' = now_mono
                        /\ pc' = "recover"
                        /\ obs' = obs
                   ELSE /\ pc' = "idle"
                        /\ obs' = [obs EXCEPT !.finished = "raised"]
                        /\ UNCHANGED last_rest_kline_poll
    /\ UNCHANGED <<preferred_mode, mode, ws_good_ticks, ws_backoff, ws_next_retry_at,
                   last_rest_price_poll, ds_mode, ws_connected, now_mono,
                   ever_ws, quiet_since>>

PollRestKlines == PollRestKlinesOn(SyncOutcomes(RestPollLimit))

\* _attempt_ws_recover whatever the preferred mode
RecoverSkipped_AnyPreferred(preferred, mono, retry_at) == mono < retry_at

\* _attempt_ws_recover returns at once: preferred_mode != "ws", or
\* now_mono < self._ws_next_retry_at
RecoverSkipped(preferred, mono, retry_at) == preferred # "ws" \/ mono < retry_at

\* _ws_good_ticks after a recovery that keeps its count
GoodTicksAfterSwitch_Kept(good) == good

\* self._ws_good_ticks = 0, after _switch_mode("ws")
GoodTicksAfterSwitch(good) == 0

\* _attempt_ws_recover, then the end of refresh(): connect() succeeds as connects
\* has it, read_events() gives one of reads, the clock reading of the freshness
\* test has an offset of offsets, and the resync an outcome of syncs.
AttemptWsRecoverOn(connects, reads, offsets, syncs) ==
    /\ UNCHANGED <<notSM, derivVars>>
    /\ pc = "recover"
    /\ pc' = "idle"
    /\ IF RecoverSkipped(preferred_mode, now_mono, ws_next_retry_at)
       THEN /\ obs' = [obs EXCEPT !.finished = "returned",
                                  !.recover = IF preferred_mode # "ws" THEN "not_preferred"
                                              ELSE "backoff_wait"]
            /\ UNCHANGED <<mode, ds_mode, ws_good_ticks, ws_backoff, ws_next_retry_at,
                           storeVars, ws_connected, ever_ws, quiet_since>>
       ELSE \E connect_ok \in (IF ws_connected THEN {TRUE} ELSE connects) :
           IF ~connect_ok
           THEN /\ ws_next_retry_at' = now_mono + ws_backoff
                /\ ws_backoff' = NextBackoff(ws_backoff)
                /\ obs' = Failed([obs EXCEPT !.finished = "returned",
                                             !.recover = "connect_failed",
                                             !.connect_hold = obs.hold_until], ws_backoff)
                /\ UNCHANGED <<mode, ds_mode, ws_good_ticks, storeVars, ws_connected,
                               ever_ws, quiet_since>>
           ELSE LET backoff == IF ws_connected THEN ws_backoff ELSE ws_backoff_min
                    connected == IF ws_connected THEN obs
                                 ELSE [obs EXCEPT !.connect_hold = obs.hold_until]
                IN  \E read \in reads :
                    IF read.kind = "raise"
                    THEN /\ ws_connected' = FALSE
                         /\ ws_next_retry_at' = now_mono + backoff
                         /\ ws_backoff' = NextBackoff(backoff)
                         /\ obs' = Failed([connected EXCEPT !.finished = "returned",
                                                            !.recover = "read_failed",
                                                            !.closed = TRUE,
                                                            !.stream_raised = TRUE], backoff)
                         /\ UNCHANGED <<mode, ds_mode, ws_good_ticks, storeVars, ever_ws,
                                        quiet_since>>
                    ELSE IF read.kind = "apply_raise"
                    THEN /\ SetStore(ApplyTicks(Store, read.ticks, NowDt))
                         /\ ws_connected' = TRUE
                         /\ ws_backoff' = backoff
                         /\ quiet_since' = now_mono
                         /\ obs' = [connected EXCEPT !.finished = "raised",
                                                     !.recover = "apply_raised",
                                                     !.closed = FALSE,
                                                     !.stream_raised = TRUE]
                         /\ UNCHANGED <<mode, ds_mode, ws_good_ticks, ws_next_retry_at,
                                        ever_ws>>
                    ELSE \E offset \in offsets :
                        LET applied == ApplyWsEvents(Store, read, NowDt, NowMs(offset))
                            good == ws_good_ticks + applied.fresh_ticks
                            seen == [connected EXCEPT !.finished = "returned",
                                                !.fresh_ticks = applied.fresh_ticks,
                                                !.good_total = good]
                            heard == IF read.ticks = <<>> /\ read.kline_ticks = <<>>
                                     THEN quiet_since ELSE now_mono
                        IN  /\ good <= MaxGoodTicks
                            /\ ws_connected' = TRUE
                            /\ ws_backoff' = backoff
                            /\ UNCHANGED ws_next_retry_at
                            /\ IF RecoverReady(good)
                               THEN \E sync \in syncs :
                                   /\ SetStore(StateSyncFromRest(applied.store, sync, NowDt))
                                   /\ IF SafeStateSync(sync)
                                      THEN /\ SwitchMode("ws")
                                           /\ ws_good_ticks' = GoodTicksAfterSwitch(good)
                                           /\ ever_ws' = TRUE
                                           /\ quiet_since' = now_mono
                                      ELSE /\ ws_good_ticks' = good
                                           /\ quiet_since' = heard
                                           /\ UNCHANGED <<mode, ds_mode, ever_ws>>
                                   /\ obs' = [seen EXCEPT
                                                 !.recover = IF SafeStateSync(sync)
                                                             THEN "switched" ELSE "sync_failed",
                                                 !.sync_done = Cardinality(Handled(sync.raise_at)),
                                                 !.sync_raised = sync.raise_at # 0]
                               ELSE /\ SetStore(applied.store)
                                    /\ ws_good_ticks' = good
                                    /\ quiet_since' = heard
                                    /\ obs' = [seen EXCEPT !.recover = "counting"]
                                    /\ UNCHANGED <<mode, ds_mode, ever_ws>>
    /\ UNCHANGED <<preferred_mode, last_rest_price_poll, last_rest_kline_poll,
                   now_mono>>

AttemptWsRecover ==
    AttemptWsRecoverOn(BOOLEAN, ReadOutcomes, ClockOffsets, SyncOutcomes(state_sync_klines))

\* The steps of refresh() once the stream and the REST client work: connect()
\* succeeds, read_events() delivers price ticks, the clock is synced and no REST
\* call raises.
HealthyReads == {r \in ReadOutcomes : r.kind = "ok" /\ r.ticks # <<>>}

HealthySyncs(limit) == {o \in SyncOutcomes(limit) : o.raise_at = 0}

HealthyAttemptWsEvents == AttemptWsEventsOn(HealthyReads)

HealthyPollRestPrices == PollRestPricesOn({o \in PriceOutcomes : o.raise_at = 0})

HealthyPollRestKlines == PollRestKlinesOn(HealthySyncs(RestPollLimit))

HealthyAttemptWsRecover ==
    AttemptWsRecoverOn({TRUE}, HealthyReads, {0}, HealthySyncs(state_sync_klines))

HealthyNext ==
    \/ Tick
    \/ HealthyAttemptWsEvents
    \/ EvaluateStaleness
    \/ PollDerivativesOk
    \/ HealthyPollRestPrices
    \/ HealthyPollRestKlines
    \/ HealthyAttemptWsRecover

\* refresh() with a working stream and REST client but for the derivative
\* fetches, which raise as they may.
DerivNext ==
    \/ Tick
    \/ HealthyAttemptWsEvents
    \/ EvaluateStaleness
    \/ PollDerivatives
    \/ HealthyPollRestPrices
    \/ HealthyPollRestKlines
    \/ HealthyAttemptWsRecover

SMNext ==
    \/ Tick
    \/ AttemptWsEvents
    \/ EvaluateStaleness
    \/ PollDerivativesOk
    \/ PollRestPrices
    \/ PollRestKlines
    \/ AttemptWsRecover

\* The SourceManager of a process that runs no refresh().
SMIdle ==
    /\ now_mono = 0
    /\ preferred_mode = "rest"
    /\ SetStoreInit(EmptyStore)
    /\ ws_connected = FALSE
    /\ mode = "rest"
    /\ ds_mode = "rest"
    /\ ws_next_retry_at = 0
    /\ ws_backoff = ws_backoff_min
    /\ ws_good_ticks = 0
    /\ last_rest_price_poll = 0
    /\ last_rest_kline_poll = 0
    /\ pc = "idle"
    /\ ever_ws = FALSE
    /\ quiet_since = 0
    /\ last_premium_poll = 0
    /\ last_funding_poll = 0
    /\ last_oi_poll = 0
    /\ derivatives = NoDerivatives
    /\ obs = [NewObsFrom(0) EXCEPT !.finished = "constructed"]

\* The RiskEngine of a process that evaluates no symbol.
RiskIdle ==
    /\ kill_switch = FALSE
    /\ pnl_csv = NoCsv
    /\ risk_state = EmptyRiskState
    /\ test_emit_enabled = FALSE
    /\ last_test_emit_ts = EmptyMap
    /\ rnow = 0
    /\ decision = NoDecision
    /\ lastCard = [s \in SymbolSet |-> None]
    /\ lastStrategyCard = [s \in SymbolSet |-> None]
    /\ minGap = None
    /\ minStrategyGap = None
    /\ cardKinds = {}
    /\ unguarded = FALSE

(***************************************************************************)
(* Arbitrator.                                                             *)
(***************************************************************************)

\* The most candidates of one choose_best call.
MaxCandidates == 3

\* The most candidates of a call inside the dedupe window.
MaxWindowCandidates == 1

\* The latest ctx.timestamp and last-sent time.
MaxArbTime == 3

\* ArbitratorConfig.entry_similar_pct and stop_similar_pct, in 1/1000.
entry_similar_permille == 1

stop_similar_permille == 1

Permille == 1000

\* (priority, confidence, ttl_minutes) of the candidates.
CardKeys ==
    { [priority |-> 2, confidence |-> 2, ttl_minutes |-> 1],
      [priority |-> 2, confidence |-> 2, ttl_minutes |-> 2],
      [priority |-> 2, confidence |-> 1, ttl_minutes |-> 1],
      [priority |-> 1, confidence |-> 2, ttl_minutes |-> 1] }

\* (side, entry, stop) of the candidates: the second is close to the first in
\* entry and to the third in stop, the first and the third are not close.
CardPlans ==
    { [side |-> "LONG", entry |-> 100000, stop |-> 90000],
      [side |-> "LONG", entry |-> 100050, stop |-> 50000],
      [side |-> "LONG", entry |-> 200000, stop |-> 50010],
      [side |-> "SHORT", entry |-> 100000, stop |-> 90000] }

\* ProposalCard, as far as choose_best reads it.
CardPool ==
    { [side |-> g.side, entry |-> g.entry, stop |-> g.stop, priority |-> k.priority,
       confidence |-> k.confidence, ttl_minutes |-> k.ttl_minutes] :
        g \in CardPlans, k \in CardKeys }

CardLists(max_len) == UNION { [1..n -> CardPool] : n \in 0..max_len }

Abs(x) == IF x < 0 THEN 0 - x ELSE x

\* key=lambda c: (c.priority, c.confidence, -c.ttl_minutes): a's key is below b's.
KeyLess_LongerTtl(a, b) ==
    \/ a.priority < b.priority
    \/ a.priority = b.priority /\ a.confidence < b.confidence
    \/ a.priority = b.priority /\ a.confidence = b.confidence
       /\ a.ttl_minutes < b.ttl_minutes

KeyLess(a, b) ==
    \/ a.priority < b.priority
    \/ a.priority = b.priority /\ a.confidence < b.confidence
    \/ a.priority = b.priority /\ a.confidence = b.confidence
       /\ 0 - a.ttl_minutes < 0 - b.ttl_minutes

\* sorted(..., reverse=True) is stable: a card goes before the first card whose
\* key is below its own, after the cards of an equal key that came before it.
RECURSIVE InsertDesc(_, _)
InsertDesc(sorted, card) ==
    IF sorted = <<>> THEN <<card>>
    ELSE IF KeyLess(Head(sorted), card) THEN <<card>> \o sorted
    ELSE <<Head(sorted)>> \o InsertDesc(Tail(sorted), card)

RECURSIVE SortedDesc(_)
SortedDesc(cards) ==
    IF cards = <<>> THEN <<>>
    ELSE InsertDesc(SortedDesc(SubSeq(cards, 1, Len(cards) - 1)), cards[Len(cards)])

\* same_side and (entry_close or stop_close), lines 74-77 (entries and stops of
\* the candidates are at least 1, above the 1e-9 floor).
SimilarBy(existing, card, entry_permille, stop_permille) ==
    /\ existing.side = card.side
    /\ \/ Abs(existing.entry - card.entry) * Permille
              < entry_permille * existing.entry
       \/ Abs(existing.stop - card.stop) * Permille
              < stop_permille * Abs(existing.stop)

Similar(existing, card) ==
    SimilarBy(existing, card, entry_similar_permille, stop_similar_permille)

\* The loop of _dedupe_similar over the sorted cards, for a config of
\* entry_similar_pct and stop_similar_pct.
RECURSIVE KeepFromBy(_, _, _, _)
KeepFromBy(kept, rest, entry_permille, stop_permille) ==
    IF rest = <<>> THEN kept
    ELSE IF \E i \in 1..Len(kept) :
                SimilarBy(kept[i], Head(rest), entry_permille, stop_permille)
         THEN KeepFromBy(kept, Tail(rest), entry_permille, stop_permille)
         ELSE KeepFromBy(Append(kept, Head(rest)), Tail(rest), entry_permille, stop_permille)

KeepFrom(kept, rest) ==
    KeepFromBy(kept, rest, entry_similar_permille, stop_similar_permille)

\* _dedupe_similar over the cards from the lowest rank up
DedupeSimilar_LowestFirst(cards) ==
    LET sorted == SortedDesc(cards)
    IN KeepFrom(<<>>, [i \in 1..Len(sorted) |-> sorted[Len(sorted) + 1 - i]])

DedupeSimilar(cards) == KeepFrom(<<>>, SortedDesc(cards))

\* last_sent is not None and (now - last_sent).total_seconds() <= dedupe_window
InWindow_Strict(last_sent, now_ts) ==
    last_sent # None /\ now_ts - last_sent < dedupe_window_minutes

InWindow(last_sent, now_ts) ==
    last_sent # None /\ now_ts - last_sent <= dedupe_window_minutes

\* Arbitrator.choose_best: <<>> for None, else the winner.
ChooseBest(cards, symbol, timestamp, last_sent_lookup) ==
    IF cards = <<>> THEN <<>>
    ELSE IF InWindow(last_sent_lookup[symbol], timestamp) THEN <<>>
    ELSE LET selected == DedupeSimilar(cards)
         IN  IF selected = <<>> THEN <<>> ELSE <<SortedDesc(selected)[1]>>

NotCalled == [called |-> FALSE, card |-> <<>>]

\* The inputs of a call outside the dedupe window: nothing was sent for the
\* symbol, or it was sent longer ago than the window.
ArbOrderInit ==
    /\ arb_cards \in CardLists(MaxCandidates)
    /\ arb_symbol = Symbols[1]
    /\ arb_timestamp = MaxArbTime
    /\ \E last \in {None, 0} : arb_last_sent = [s \in SymbolSet |-> IF s = arb_symbol THEN last ELSE None]
    /\ arb_result = NotCalled

\* The inputs of a call with any last-sent times.
ArbWindowInit ==
    /\ arb_cards \in CardLists(MaxWindowCandidates)
    /\ arb_symbol \in SymbolSet
    /\ arb_timestamp \in 0..MaxArbTime
    /\ arb_last_sent \in [SymbolSet -> {None} \cup 0..MaxArbTime]
    /\ arb_result = NotCalled

\* No choose_best call is made.
ArbIdle ==
    /\ arb_cards = <<>>
    /\ arb_symbol = Symbols[1]
    /\ arb_timestamp = 0
    /\ arb_last_sent = [s \in SymbolSet |-> None]
    /\ arb_result = NotCalled

\* arbitrator.choose_best(candidates, signal_context)
ChooseBestCall ==
    /\ ~arb_result.called
    /\ arb_result' = [called |-> TRUE,
                      card |-> ChooseBest(arb_cards, arb_symbol, arb_timestamp, arb_last_sent)]
    /\ UNCHANGED <<arb_cards, arb_symbol, arb_timestamp, arb_last_sent>>
    /\ UNCHANGED notArb

ArbNext == ChooseBestCall

(***************************************************************************)
(* DataStore operations.                                                   *)
(***************************************************************************)

\* The most operations of one sequence.
MaxDsOps == 3

\* DataStore.__init__
NewDataStore ==
    [klines |-> EmptyStore.klines,
     last_ws_kline_open_time |-> EmptyStore.last_ws_kline_open_time,
     last_price_ts |-> EmptyStore.last_price_ts,
     last_kline_recv_ts |-> EmptyStore.last_kline_recv_ts,
     last_kline_close_ts |-> [s \in SymbolSet |-> None],
     kline_opens |-> [s \in SymbolSet |-> <<>>],
     price |-> [s \in SymbolSet |-> None],
     derivatives |-> NoDerivatives]

\* The last max_klines entries of a buffer (deque(maxlen=max_klines)).
Kept(buffer) ==
    IF Len(buffer) <= max_klines THEN buffer
    ELSE SubSeq(buffer, Len(buffer) - max_klines + 1, Len(buffer))

\* DataStore.merge_klines, with last_kline_close_ts; kline_opens holds the open
\* time of each candle of the buffer (a Candle itself carries none): the n
\* candles of a REST response are those of the minutes up to last_open.
MergeKlinesFull(store, symbol, n, last_open, ts) ==
    IF n = 0 THEN store
    ELSE [MergeKlines(store, symbol, n, ts) EXCEPT
             !.last_kline_close_ts[symbol] = ts,
             !.kline_opens[symbol] = Kept([i \in 1..n |-> last_open - n + i])]

\* DataStore.upsert_ws_kline, with last_kline_close_ts
UpsertWsKlineFull(store, symbol, open_time_ms, is_closed, ts) ==
    LET opens == store.kline_opens[symbol]
        replace == opens # <<>> /\ store.last_ws_kline_open_time[symbol] = open_time_ms
        upserted == [UpsertWsKline(store, symbol, open_time_ms, ts) EXCEPT
                        !.kline_opens[symbol] =
                            IF replace THEN [opens EXCEPT ![Len(opens)] = open_time_ms]
                            ELSE Kept(Append(opens, open_time_ms))]
    IN  IF is_closed THEN [upserted EXCEPT !.last_kline_close_ts[symbol] = ts]
        ELSE upserted

\* DataStore.update_price, with the price itself (known by the time of its update)
UpdatePriceFull(store, symbol, ts) ==
    [UpdatePrice(store, symbol, ts) EXCEPT !.price[symbol] = ts]

\* No operation yet.
NoOp == [op |-> "init", symbol |-> Symbols[1], is_closed |-> FALSE]

\* The threads that call the mutators, and the one that calls snapshot().
Writers == {"w1", "w2"}

NoCall == [op |-> "none", symbol |-> Symbols[1], open_time_ms |-> 0, is_closed |-> FALSE,
           ts |-> 0, done |-> 0]

NoSnap == [symbol |-> "none"]

DsInit ==
    /\ ds = NewDataStore
    /\ ds_ops = 0
    /\ ds_op = NoOp
    /\ lock = "none"
    /\ threads = [t \in Writers |-> NoCall]
    /\ snap = NoSnap
    /\ committed = NewDataStore

\* The DataStore of the SourceManager is the one modelled with it.
DsIdle == DsInit

\* The record of an operation.
Op(op, symbol, is_closed) == [op |-> op, symbol |-> symbol, is_closed |-> is_closed]

UpdatePriceCall ==
    /\ ds_ops < MaxDsOps
    /\ ds_ops' = ds_ops + 1
    /\ \E s \in SymbolSet :
           /\ ds' = UpdatePriceFull(ds, s, ds_ops')
           /\ ds_op' = Op("update_price", s, FALSE)
    /\ UNCHANGED <<notDs, thVars>>

MergeKlinesCall ==
    /\ ds_ops < MaxDsOps
    /\ ds_ops' = ds_ops + 1
    /\ \E s \in SymbolSet, n \in {0, state_sync_klines}, o \in 1..MaxOpenTime :
           /\ ds' = MergeKlinesFull(ds, s, n, o, ds_ops')
           /\ ds_op' = Op("merge_klines", s, FALSE)
    /\ UNCHANGED <<notDs, thVars>>

UpsertWsKlineCall ==
    /\ ds_ops < MaxDsOps
    /\ ds_ops' = ds_ops + 1
    /\ \E s \in SymbolSet, o \in 1..MaxOpenTime, is_closed \in BOOLEAN :
           /\ ds' = UpsertWsKlineFull(ds, s, o, is_closed, ds_ops')
           /\ ds_op' = Op("upsert_ws_kline", s, is_closed)
    /\ UNCHANGED <<notDs, thVars>>

UpdatePremiumIndexCall ==
    /\ ds_ops < MaxDsOps
    /\ ds_ops' = ds_ops + 1
    /\ \E s \in SymbolSet :
           /\ ds' = [ds EXCEPT !.derivatives = UpdatePremiumIndex(@, s, ds_ops')]
           /\ ds_op' = Op("update_premium_index", s, FALSE)
    /\ UNCHANGED <<notDs, thVars>>

UpdateFundingRateHistoryCall ==
    /\ ds_ops < MaxDsOps
    /\ ds_ops' = ds_ops + 1
    /\ \E s \in SymbolSet :
           /\ ds' = [ds EXCEPT !.derivatives = UpdateFundingRateHistory(@, s, ds_ops')]
           /\ ds_op' = Op("update_funding_rate_history", s, FALSE)
    /\ UNCHANGED <<notDs, thVars>>

UpdateOpenInterestCall ==
    /\ ds_ops < MaxDsOps
    /\ ds_ops' = ds_ops + 1
    /\ \E s \in SymbolSet :
           /\ ds' = [ds EXCEPT !.derivatives = UpdateOpenInterest(@, s, ds_ops')]
           /\ ds_op' = Op("update_open_interest", s, FALSE)
    /\ UNCHANGED <<notDs, thVars>>

DsNext ==
    \/ UpdatePriceCall
    \/ MergeKlinesCall
    \/ UpsertWsKlineCall
    \/ UpdatePremiumIndexCall
    \/ UpdateFundingRateHistoryCall
    \/ UpdateOpenInterestCall

(***************************************************************************)
(* DataStore under threads: a mutator is the sequence of its assignments,  *)
(* made while the thread holds the lock.                                   *)
(***************************************************************************)

\* The assignments of a mutator body.
Writes(call) ==
    CASE call.op = "update_price" -> 2
      [] call.op = "upsert_ws_kline" -> 2
      [] call.op = "merge_klines" -> 3

\* The store after the k-th assignment of call.
After(store, call, k) ==
    LET s == call.symbol
        n == state_sync_klines
    IN  CASE call.op = "update_price" /\ k = 1 -> [store EXCEPT !.price[s] = call.ts]
          [] call.op = "update_price" /\ k = 2 -> UpdatePrice(store, s, call.ts)
          [] call.op = "upsert_ws_kline" /\ k = 1 ->
                 UpsertWsKlineFull(store, s, call.open_time_ms, FALSE, call.ts)
          [] call.op = "upsert_ws_kline" /\ k = 2 ->
                 IF call.is_closed THEN [store EXCEPT !.last_kline_close_ts[s] = call.ts]
                 ELSE store
          [] call.op = "merge_klines" /\ k = 1 ->
                 [store EXCEPT !.klines[s] = 0, !.kline_opens[s] = <<>>]
          [] call.op = "merge_klines" /\ k = 2 ->
                 [store EXCEPT
                     !.klines[s] = Min(n, max_klines),
                     !.kline_opens[s] = Kept([i \in 1..n |-> call.open_time_ms - n + i])]
          [] call.op = "merge_klines" /\ k = 3 ->
                 [store EXCEPT !.last_kline_close_ts[s] = call.ts,
                               !.last_ws_kline_open_time[s] = None]

\* with self._lock: the lock is free (a thread waits otherwise).
LockFree_NoLock == TRUE

LockFree == lock = "none"

\* list(...) of snapshot(): a new list with the items of the buffer.
ListCopy_Shared(buffer) == [shared |-> TRUE, items |-> buffer]

ListCopy(buffer) == [shared |-> FALSE, items |-> buffer]

\* The items a reader finds in a list of a snapshot.
Items(list, buffer) == IF list.shared THEN buffer ELSE list.items

\* The fields of symbol in store that a SymbolSnapshot holds.
SymbolState(store, symbol) ==
    [price |-> store.price[symbol],
     last_price_ts |-> store.last_price_ts[symbol],
     last_kline_close_ts |-> store.last_kline_close_ts[symbol],
     klines_1m |-> store.kline_opens[symbol]]

\* A writer enters a mutator.
Enter ==
    /\ ds_ops < MaxDsOps
    /\ LockFree
    /\ ds_ops' = ds_ops + 1
    /\ \E t \in Writers, op \in {"update_price", "upsert_ws_kline", "merge_klines"},
          s \in SymbolSet, o \in 1..MaxOpenTime, is_closed \in BOOLEAN :
           /\ threads[t].op = "none"
           /\ op # "upsert_ws_kline" => ~is_closed
           /\ op = "update_price" => o = 1
           /\ lock' = t
           /\ threads' = [threads EXCEPT ![t] =
                             [op |-> op, symbol |-> s, open_time_ms |-> o,
                              is_closed |-> is_closed, ts |-> ds_ops', done |-> 0]]
    /\ UNCHANGED <<ds, ds_op, snap, committed, notDs>>

\* A writer makes the next assignment of its mutator.
Write ==
    /\ \E t \in Writers :
           /\ threads[t].op # "none"
           /\ threads[t].done < Writes(threads[t])
           /\ ds' = After(ds, threads[t], threads[t].done + 1)
           /\ threads' = [threads EXCEPT ![t].done = @ + 1]
    /\ UNCHANGED <<ds_ops, ds_op, lock, snap, committed, notDs>>

\* A writer leaves its mutator.
Leave ==
    /\ \E t \in Writers :
           /\ threads[t].op # "none"
           /\ threads[t].done = Writes(threads[t])
           /\ lock' = IF lock = t THEN "none" ELSE lock
           /\ ds_op' = Op(threads[t].op, threads[t].symbol, threads[t].is_closed)
           /\ threads' = [threads EXCEPT ![t] = NoCall]
    /\ committed' = ds
    /\ UNCHANGED <<ds, ds_ops, snap, notDs>>

\* DataStore.snapshot(symbol), by the reader thread: the whole body runs while
\* it holds the lock.
SnapshotCall ==
    /\ LockFree
    /\ \E s \in SymbolSet :
           snap' = [symbol |-> s, price |-> ds.price[s],
                    last_price_ts |-> ds.last_price_ts[s],
                    last_kline_close_ts |-> ds.last_kline_close_ts[s],
                    klines_1m |-> ListCopy(ds.kline_opens[s]),
                    between |-> SymbolState(committed, s)]
    /\ UNCHANGED <<ds, ds_ops, ds_op, lock, threads, committed, notDs>>

ThreadsNext ==
    \/ Enter
    \/ Write
    \/ Leave
    \/ SnapshotCall

(***************************************************************************)
(* ClockSync: refresh_server_time and now_ms.                              *)
(***************************************************************************)

\* The last reading of the local clock in a run.
MaxClockTime == 9

\* Settings of the ClockSync, in the order of their defaults:
\* max_clock_error_ms < degraded_retry_sec < refresh_cooldown_ms < refresh_sec.
max_clock_error_ms == 1

degraded_retry_sec == 2

refresh_cooldown_ms == 5

refresh_sec == 6

degraded_ttl_ms == 6

\* The longest a fetch of the server time takes (the request times out later
\* than max_clock_error_ms).
FetchLatency == 2

\* fetch_server_time_ms(): it raises or returns the server's time, which is the
\* local time of the request plus the offset of the two clocks, after lat.
FetchOutcomes == [ok : BOOLEAN, offset : ClockOffsets, lat : {0, FetchLatency}]

\* ClockSyncState() and _next_refresh_mono = 0.0
NewClockSync ==
    [clock_skew_ms |-> 0, last_server_ms |-> None, last_sync_local_ms |-> None,
     last_force_refresh_local_ms |-> None, degraded_until_local_ms |-> None,
     state |-> "degraded", next_refresh_mono |-> 0]

compute_clock_skew_ms(local_ms, server_ms) == server_ms - local_ms

compute_now_ms_corrected(local_ms, clock_skew_ms) == local_ms + clock_skew_ms

\* _set_next_refresh(now_mono), with the interval of a synced clock
SetNextRefresh_RefreshSec(c, mono) ==
    [c EXCEPT !.next_refresh_mono = mono + refresh_sec]

\* _set_next_refresh(now_mono)
SetNextRefresh(c, mono) ==
    [c EXCEPT !.next_refresh_mono =
        mono + (IF c.state = "degraded" THEN degraded_retry_sec ELSE refresh_sec)]

\* refresh_server_time(force) at time t with outcome f of the fetch: the state
\* it leaves, the time it returns at, what it returns and the fetches it made.
RefreshServerTime(c, force, t, f) ==
    IF ~force /\ t < c.next_refresh_mono
    THEN [c |-> c, t |-> t, ret |-> (c.state = "synced"), fetches |-> <<>>]
    ELSE LET local_ms == t
             server_ms == t + f.offset
             made == <<[forced |-> force, ok |-> f.ok, at |-> t]>>
         IN IF f.ok
            THEN [c |-> SetNextRefresh(
                          [c EXCEPT !.clock_skew_ms = compute_clock_skew_ms(local_ms, server_ms),
                                    !.last_server_ms = server_ms,
                                    !.last_sync_local_ms = local_ms,
                                    !.state = "synced",
                                    !.degraded_until_local_ms = None], t),
                  t |-> t + f.lat, ret |-> TRUE, fetches |-> made]
            ELSE [c |-> SetNextRefresh(
                          [c EXCEPT !.state = "degraded",
                                    !.degraded_until_local_ms = local_ms + degraded_ttl_ms,
                                    !.clock_skew_ms = 0,
                                    !.last_server_ms = None,
                                    !.last_sync_local_ms = None], t),
                  t |-> t + f.lat, ret |-> FALSE, fetches |-> made]

\* since_force < refresh_cooldown_ms, of a forced refresh that there was
CooldownRemains_Never(c, local_ms) == FALSE

CooldownRemains(c, local_ms) ==
    /\ c.last_force_refresh_local_ms # None
    /\ local_ms - c.last_force_refresh_local_ms < refresh_cooldown_ms

\* The degraded state of a now_ms() that could not refresh.
Degrade(c, local_ms) ==
    [c EXCEPT !.state = "degraded",
              !.degraded_until_local_ms = local_ms + degraded_ttl_ms]

\* What now_ms() gives back: the state, the time, the value, the reading
\* local_ms, the fetches and the return statement it left by.
Returned(c, t, value, local_ms, fetches, branch) ==
    [c |-> c, t |-> t, value |-> value, local_ms |-> local_ms,
     fetches |-> fetches, branch |-> branch]

\* now_ms(): the return of the local time by a degraded clock
ReturnLocal_Corrected(c, t, local_ms, fetches, branch) ==
    Returned(c, t, compute_now_ms_corrected(local_ms, c.clock_skew_ms), local_ms, fetches, branch)

ReturnLocal(c, t, local_ms, fetches, branch) ==
    Returned(c, t, local_ms, local_ms, fetches, branch)

\* now_ms(): last_force_refresh_local_ms = local_ms and
\* refresh_server_time(force=True), with what follows either result.
ForceRefresh(c, t, local_ms, fetches, f) ==
    LET r == RefreshServerTime([c EXCEPT !.last_force_refresh_local_ms = local_ms], TRUE, t, f)
        refreshed_local_ms == r.t
    IN IF r.ret
       THEN Returned(r.c, r.t,
                     compute_now_ms_corrected(refreshed_local_ms, r.c.clock_skew_ms),
                     local_ms, fetches \o r.fetches, "refreshed")
       ELSE ReturnLocal(Degrade(r.c, local_ms), r.t, local_ms,
                        fetches \o r.fetches, "refresh_failed")

\* drift_ms of a clock that tracks the skew and not the server's time
DriftMs_OfSkew(c, local_ms) == Abs(c.clock_skew_ms - (c.last_server_ms - c.last_sync_local_ms))

\* drift_ms = abs(corrected_ms - self.state.last_server_ms)
DriftMs(c, local_ms) ==
    Abs(compute_now_ms_corrected(local_ms, c.clock_skew_ms) - c.last_server_ms)

\* now_ms() at time t; f1 is the outcome of the fetch of the scheduled refresh
\* and f2 of the forced one, for the fetches that are made.
ClockNowMs(c0, t0, f1, f2) ==
    LET r == RefreshServerTime(c0, FALSE, t0, f1)
        c == r.c
        t == r.t
        local_ms == r.t
        corrected_ms == compute_now_ms_corrected(local_ms, c.clock_skew_ms)
    IN IF c.state = "degraded"
       THEN IF c.last_force_refresh_local_ms = None
            THEN ReturnLocal(c, t, local_ms, r.fetches, "degraded")
            ELSE IF local_ms - c.last_force_refresh_local_ms < refresh_cooldown_ms
                 THEN ReturnLocal(c, t, local_ms, r.fetches, "degraded")
                 ELSE ForceRefresh(c, t, local_ms, r.fetches, f2)
       ELSE IF c.last_server_ms = None
            THEN Returned(c, t, local_ms, local_ms, r.fetches, "no_server_ms")
            ELSE IF DriftMs(c, local_ms) <= max_clock_error_ms
                 THEN Returned(c, t, corrected_ms, local_ms, r.fetches, "drift_ok")
                 ELSE IF CooldownRemains(c, local_ms)
                      THEN ReturnLocal(Degrade(c, local_ms), t, local_ms, r.fetches,
                                       "cooldown_blocked")
                      ELSE ForceRefresh(c, t, local_ms, r.fetches, f2)

NoClockCall ==
    [call |-> "none", at |-> 0, returned_at |-> 0, fetches |-> <<>>, returned |-> None, local_ms |-> None,
     branch |-> "none", after_failed_refresh |-> FALSE, prev_forced |-> None,
     last_forced |-> None, checked |-> NewClockSync]

\* The time of the last forced fetch that now_ms() issued, after a call that
\* made fetches.
LastForced(before, fetches) ==
    IF \E i \in 1..Len(fetches) : fetches[i].forced
    THEN fetches[CHOOSE i \in 1..Len(fetches) :
                    /\ fetches[i].forced
                    /\ \A j \in (i + 1)..Len(fetches) : ~fetches[j].forced].at
    ELSE before

\* The last call was a refresh_server_time whose fetch failed.
FailedRefresh(call) ==
    /\ call.call = "refresh_server_time"
    /\ call.fetches # <<>>
    /\ ~call.fetches[1].ok

ClockInit ==
    /\ clock = NewClockSync
    /\ clock_time = 0
    /\ clock_call = NoClockCall

ClockIdle == ClockInit

\* The local clock advances.
ClockTick ==
    /\ clock_time < MaxClockTime
    /\ clock_time' = clock_time + 1
    /\ UNCHANGED <<clock, clock_call, notClock>>

\* refresh_server_time(force=force)
RefreshServerTimeCall ==
    \E force \in BOOLEAN, f \in FetchOutcomes :
        LET r == RefreshServerTime(clock, force, clock_time, f)
        IN /\ r.t <= MaxClockTime
           /\ clock' = r.c
           /\ clock_time' = r.t
           /\ clock_call' = [call |-> "refresh_server_time", at |-> clock_time, returned_at |-> r.t,
                             fetches |-> r.fetches, returned |-> None, local_ms |-> None,
                             branch |-> "none", after_failed_refresh |-> FALSE,
                             prev_forced |-> clock_call.last_forced,
                             last_forced |-> clock_call.last_forced,
                             checked |-> NewClockSync]
           /\ UNCHANGED notClock

\* now_ms()
NowMsCall ==
    \E f1 \in FetchOutcomes, f2 \in FetchOutcomes :
        LET r == ClockNowMs(clock, clock_time, f1, f2)
        IN /\ r.t <= MaxClockTime
           /\ clock' = r.c
           /\ clock_time' = r.t
           /\ clock_call' = [call |-> "now_ms", at |-> clock_time, returned_at |-> r.t,
                             fetches |-> r.fetches, returned |-> r.value,
                             local_ms |-> r.local_ms, branch |-> r.branch,
                             after_failed_refresh |-> FailedRefresh(clock_call),
                             prev_forced |-> clock_call.last_forced,
                             last_forced |-> LastForced(clock_call.last_forced, r.fetches),
                             checked |-> RefreshServerTime(clock, FALSE, clock_time, f1).c]
           /\ UNCHANGED notClock

ClockNext ==
    \/ ClockTick
    \/ RefreshServerTimeCall
    \/ NowMsCall

(***************************************************************************)
(* derivatives_are_fresh and SignalService.evaluate_symbol up to the card. *)
(***************************************************************************)

\* The last corrected time and timestamp of a snapshot.
MaxGateTime == 3

funding_stale_ms == 1

oi_stale_ms == 1

GateTimes == 0..MaxGateTime

DerivativesGate(allow, oi_status, funding_raw_age_ms, oi_raw_age_ms, reason) ==
    [allow |-> allow, oi_status |-> oi_status, funding_raw_age_ms |-> funding_raw_age_ms,
     oi_raw_age_ms |-> oi_raw_age_ms, reason |-> reason]

\* derivatives_are_fresh with a stale open interest denying as well
DerivativesAreFresh_OiGates(snapshot, now_ms_corrected) ==
    LET funding_raw_age_ms == RawAgeMs(now_ms_corrected, DtToMs(snapshot.funding_ts))
        oi_raw_age_ms == RawAgeMs(now_ms_corrected, DtToMs(snapshot.open_interest_ts))
        stale == \/ snapshot.funding_ts = None
                 \/ funding_raw_age_ms > funding_stale_ms
                 \/ (snapshot.open_interest_ts # None /\ oi_raw_age_ms > oi_stale_ms)
    IN DerivativesGate(~stale, "unknown", funding_raw_age_ms, oi_raw_age_ms,
                       IF stale THEN "funding_stale" ELSE "ok")

\* derivatives_are_fresh(snapshot, now_ms_corrected, funding_stale_ms, oi_stale_ms).
\* raw_age_ms is None exactly for a timestamp that is None, and an age may be
\* negative, so "age is None" is read off the timestamp.
DerivativesAreFresh(snapshot, now_ms_corrected) ==
    LET funding_ts_ms == DtToMs(snapshot.funding_ts)
        oi_ts_ms == DtToMs(snapshot.open_interest_ts)
        funding_raw_age_ms == RawAgeMs(now_ms_corrected, funding_ts_ms)
        oi_raw_age_ms == RawAgeMs(now_ms_corrected, oi_ts_ms)
        funding_stale == funding_raw_age_ms > funding_stale_ms
        oi_status == IF oi_ts_ms = None THEN "unknown"
                     ELSE IF oi_raw_age_ms > oi_stale_ms THEN "stale" ELSE "fresh"
    IN IF funding_ts_ms = None
       THEN DerivativesGate(FALSE, "unknown", None, oi_raw_age_ms, "funding_missing")
       ELSE DerivativesGate(~funding_stale, oi_status, funding_raw_age_ms, oi_raw_age_ms,
                            IF funding_stale THEN "funding_stale" ELSE "ok")

\* A snapshot: whether it has a price and candles, the two timestamps, whether
\* the funding rate, open interest and mark price are there; and whether the
\* steps after the gate (warm-up, strategies, arbitration, risk, test emit)
\* come to a card.
GateInputs ==
    [ready : BOOLEAN, funding_ts : GateTimes \cup {None},
     open_interest_ts : GateTimes \cup {None}, values : BOOLEAN,
     now_ms_corrected : GateTimes, rest : {"card", "none"}]

NoGate == DerivativesGate(FALSE, "", None, None, "not_computed")

NoGateCall == [call |-> "none", gate |-> NoGate, card |-> FALSE]

\* evaluate_symbol(symbol): the gate it computed, if it came to it, and whether
\* it returned a card.
EvaluateSymbolGated(in) ==
    IF ~in.ready THEN [call |-> "evaluate_symbol", gate |-> NoGate, card |-> FALSE]
    ELSE LET derivatives_gate == DerivativesAreFresh(in, in.now_ms_corrected)
         IN IF ~derivatives_gate.allow
            THEN [call |-> "evaluate_symbol", gate |-> derivatives_gate, card |-> FALSE]
            ELSE IF ~in.values
                 THEN [call |-> "evaluate_symbol", gate |-> derivatives_gate, card |-> FALSE]
                 ELSE [call |-> "evaluate_symbol", gate |-> derivatives_gate,
                       card |-> (in.rest = "card")]

GateInit ==
    /\ gate_in \in GateInputs
    /\ gate_out = NoGateCall

GateIdle ==
    /\ gate_in = [ready |-> FALSE, funding_ts |-> None, open_interest_ts |-> None,
                  values |-> FALSE, now_ms_corrected |-> 0, rest |-> "none"]
    /\ gate_out = NoGateCall

\* derivatives_are_fresh on the snapshot
DerivativesAreFreshCall ==
    /\ gate_out = NoGateCall
    /\ gate_out' = [call |-> "derivatives_are_fresh",
                    gate |-> DerivativesAreFresh(gate_in, gate_in.now_ms_corrected),
                    card |-> FALSE]
    /\ UNCHANGED <<gate_in, notGate>>

\* evaluate_symbol on the snapshot
EvaluateSymbolCall ==
    /\ gate_out = NoGateCall
    /\ gate_out' = EvaluateSymbolGated(gate_in)
    /\ UNCHANGED <<gate_in, notGate>>

GateNext ==
    \/ DerivativesAreFreshCall
    \/ EvaluateSymbolCall

(***************************************************************************)
(* SignalService.run_forever.                                              *)
(***************************************************************************)

\* The iterations of the loop in a run.
MaxDriverTicks == 3

\* The most calls that raise in one refresh().
MaxFaults == 2

\* The REST and stream calls of refresh() that raise inside a try block of the
\* SourceManager or the ClockSync: the exception is logged there and refresh()
\* goes on.
CaughtCalls ==
    {"read_events", "connect", "sync_fetch_klines", "fetch_server_time_ms",
     "fetch_premium_index", "fetch_funding_rate_history", "fetch_open_interest"}

\* The REST calls of _poll_rest_prices and _poll_rest_klines, which are in no
\* try block: the exception leaves refresh().
UncaughtCalls == {"poll_fetch_price", "poll_fetch_klines"}

TransportCalls == CaughtCalls \cup UncaughtCalls

\* The calls that can raise in one refresh(): the first uncaught one ends it.
FaultSets ==
    {f \in SUBSET TransportCalls :
        Cardinality(f) <= MaxFaults /\ Cardinality(f \cap UncaughtCalls) <= 1}

\* refresh() raises
RefreshRaises_Never(faults) == FALSE

RefreshRaises(faults) == faults \cap UncaughtCalls # {}

NoSinks == [telegram |-> "not_sent", postback |-> "not_sent"]

\* The start of an iteration.
NewTick(d) ==
    [d EXCEPT !.pc = "refresh", !.tick = @ + 1, !.i = 1, !.faults = {}, !.raised = "none",
              !.cards = {}, !.sinks = [s \in SymbolSet |-> NoSinks],
              !.evaluated = <<>>, !.recorded = {}, !.record_raised = {}, !.test_cards = {}]

\* run_forever returns with the exception
OnException_Reraise(d, call) ==
    [d EXCEPT !.pc = "returned", !.raised = call, !.running = FALSE]

\* the exception is handled inside the loop over the symbols
OnException_NextSymbol(d, call) ==
    [d EXCEPT !.pc = "evaluate", !.i = @ + 1, !.raised = call, !.survived = @ \cup {call}]

\* except Exception: logging.exception(...), and on to time.sleep
OnException(d, call) ==
    [d EXCEPT !.pc = "sleep", !.raised = call, !.survived = @ \cup {call}]

DriverInit ==
    drv = [pc |-> "refresh", tick |-> 1, i |-> 1, faults |-> {}, raised |-> "none",
           cards |-> {}, sinks |-> [s \in SymbolSet |-> NoSinks], survived |-> {},
           running |-> TRUE, evaluated |-> <<>>, recorded |-> {}, record_raised |-> {},
           test_cards |-> {}]

\* A process that does not run the loop.
DriverIdle ==
    drv = [pc |-> "idle", tick |-> 0, i |-> 1, faults |-> {}, raised |-> "none",
           cards |-> {}, sinks |-> [s \in SymbolSet |-> NoSinks], survived |-> {},
           running |-> FALSE, evaluated |-> <<>>, recorded |-> {}, record_raised |-> {},
           test_cards |-> {}]

\* self.source_manager.refresh()
DriverRefresh ==
    /\ drv.pc = "refresh"
    /\ drv.tick <= MaxDriverTicks
    /\ \E faults \in FaultSets :
           drv' = IF RefreshRaises(faults)
                  THEN OnException([drv EXCEPT !.faults = faults], "refresh")
                  ELSE [drv EXCEPT !.faults = faults, !.pc = "evaluate"]
    /\ UNCHANGED notDriver

\* What evaluate_symbol does: it returns no card, returns the card of the
\* arbitrator after record_trigger, returns a test_emit_dryrun card of
\* _maybe_test_emit, raises before record_trigger, or record_trigger raises
\* (the risk state cannot be loaded or saved).
EvaluateResults == {"none", "card", "test_card", "raise", "record_raise"}

\* _maybe_test_emit returns no card for a symbol outside test_emit_symbols.
EvaluateResultsOf(symbol) ==
    IF symbol \in test_emit_symbols THEN EvaluateResults
    ELSE EvaluateResults \ {"test_card"}

\* record_trigger raises and the card goes on to the sinks
RecordTriggerRaised_Delivered(d, symbol) ==
    [d EXCEPT !.record_raised = @ \cup {symbol}, !.cards = @ \cup {symbol},
              !.pc = "telegram"]

\* self.risk_engine.record_trigger(symbol) raises: evaluate_symbol does not reach
\* its return and the exception leaves the loop over the symbols.
RecordTriggerRaised(d, symbol) ==
    OnException([d EXCEPT !.record_raised = @ \cup {symbol}], "evaluate_symbol")

\* card, trace_id = self.evaluate_symbol(symbol)
EvaluateSymbolResult(d0, result) ==
    LET symbol == Symbols[d0.i]
        d == [d0 EXCEPT !.evaluated = Append(@, symbol)]
    IN CASE result = "raise" -> OnException(d, "evaluate_symbol")
         [] result = "record_raise" -> RecordTriggerRaised(d, symbol)
         [] result = "none" -> [d EXCEPT !.i = @ + 1]
         [] result = "card" ->
                [d EXCEPT !.recorded = @ \cup {symbol}, !.cards = @ \cup {symbol},
                          !.pc = "telegram"]
         [] OTHER ->
                [d EXCEPT !.test_cards = @ \cup {symbol}, !.cards = @ \cup {symbol},
                          !.pc = "telegram"]

\* for symbol in self.settings.symbols: evaluate_symbol(symbol);
\* card.to_dict() and str(payload) of a card's numbers and strings go through.
DriverEvaluate ==
    /\ drv.pc = "evaluate"
    /\ drv.i <= Len(Symbols)
    /\ \E result \in EvaluateResultsOf(Symbols[drv.i]) :
           drv' = EvaluateSymbolResult(drv, result)
    /\ UNCHANGED notDriver

\* self.telegram_notifier.send_json_card(payload): it returns ok, returns not ok
\* (a status outside 2xx) or raises (requests.post is in no try block).
DriverTelegram ==
    /\ drv.pc = "telegram"
    /\ \E result \in {"sent", "failed", "raised"} :
           LET d == [drv EXCEPT !.sinks[Symbols[drv.i]].telegram = result]
           IN drv' = IF result = "raised" THEN OnException(d, "send_json_card")
                     ELSE [d EXCEPT !.pc = "postback"]
    /\ UNCHANGED notDriver

\* self.postback_client.send(payload), then the next symbol
DriverPostback ==
    /\ drv.pc = "postback"
    /\ \E result \in {"sent", "failed", "raised"} :
           LET d == [drv EXCEPT !.sinks[Symbols[drv.i]].postback = result]
           IN drv' = IF result = "raised" THEN OnException(d, "send")
                     ELSE [d EXCEPT !.pc = "evaluate", !.i = @ + 1]
    /\ UNCHANGED notDriver

\* self.telegram_notifier.poll_updates_once(), after the last symbol; it handles
\* its own exceptions.
DriverPollUpdates ==
    /\ drv.pc = "evaluate"
    /\ drv.i > Len(Symbols)
    /\ drv' = [drv EXCEPT !.pc = "sleep"]
    /\ UNCHANGED notDriver

\* time.sleep(self.settings.poll_seconds), and the next iteration
DriverSleep ==
    /\ drv.pc = "sleep"
    /\ drv' = NewTick(drv)
    /\ UNCHANGED notDriver

DriverNext ==
    \/ DriverRefresh
    \/ DriverEvaluate
    \/ DriverTelegram
    \/ DriverPostback
    \/ DriverPollUpdates
    \/ DriverSleep

(***************************************************************************)
(* calculations.aggregate_klines_to_window.                                *)
(***************************************************************************)

\* The longest candle list.
MaxCandles == 3

\* window (ATR_WINDOW_MINUTES, in candles of one minute)
AggWindow == 2

\* Candle(open, high, low, close)
CandleValues == [open : {1, 2}, high : {2, 3}, low : {0, 1}, close : {1, 2}]

CandleLists == UNION { [1..n -> CandleValues] : n \in 0..MaxCandles }

\* max(c.high for c in chunk) and min(c.low for c in chunk)
MaxHigh(chunk) ==
    CHOOSE h \in {chunk[i].high : i \in 1..Len(chunk)} :
        \A i \in 1..Len(chunk) : chunk[i].high <= h

MinLow(chunk) ==
    CHOOSE l \in {chunk[i].low : i \in 1..Len(chunk)} :
        \A i \in 1..Len(chunk) : l <= chunk[i].low

\* The candle of one chunk.
GroupOf(chunk) ==
    [open |-> chunk[1].open, high |-> MaxHigh(chunk), low |-> MinLow(chunk),
     close |-> chunk[Len(chunk)].close]

\* aggregate_klines_to_window(candles_1m, window): one candle for each
\* i in range(window, len(candles_1m) + 1, window), of candles_1m[i - window : i].
AggregateKlinesToWindow(candles_1m, window) ==
    IF Len(candles_1m) < window THEN <<>>
    ELSE [g \in 1..(Len(candles_1m) \div window) |->
             GroupOf(SubSeq(candles_1m, g * window - window + 1, g * window))]

NotAggregated == [called |-> FALSE, grouped |-> <<>>]

AggInit ==
    /\ agg_in \in CandleLists
    /\ agg_out = NotAggregated

AggIdle ==
    /\ agg_in = <<>>
    /\ agg_out = NotAggregated

\* aggregate_klines_to_window(candles_1m, window=ATR_WINDOW_MINUTES)
AggregateCall ==
    /\ ~agg_out.called
    /\ agg_out' = [called |-> TRUE, grouped |-> AggregateKlinesToWindow(agg_in, AggWindow)]
    /\ UNCHANGED <<agg_in, notAgg>>

AggNext ==
    \/ AggregateCall

(***************************************************************************)
(* SourceManager.__init__ as a step, with the ClockSync it creates.        *)
(***************************************************************************)

\* What the construction leaves alone.
notSMClock == <<riskVars, arbVars, dsVars, gateVars, drvVars, aggVars, oiVars, stratVars>>

notOi == <<riskVars, smVars, arbVars, dsVars, clockVars, gateVars, drvVars, aggVars, stratVars>>

notStrat == <<riskVars, smVars, arbVars, dsVars, clockVars, gateVars, drvVars, aggVars, oiVars>>

\* The calls of the constructor that raised.
ConstructFaults(fetch, sync, connect_ok, preferred) ==
    (IF fetch.ok THEN {} ELSE {"fetch_server_time_ms"})
        \cup (IF sync.raise_at = 0 THEN {} ELSE {"sync_fetch_klines"})
        \cup (IF preferred = "ws" /\ ~connect_ok THEN {"connect"} ELSE {})

\* __init__ with a bootstrap sync that is in no try block
ConstructRaises_Bootstrap(faults) == "sync_fetch_klines" \in faults

\* __init__ raises: a call of it raised outside every try block
ConstructRaises(faults) == faults \ CaughtCalls # {}

\* The arguments are there and __init__ has not run.
SMNew ==
    /\ now_mono = 0
    /\ preferred_mode \in {"ws", "rest"}
    /\ SetStoreInit(EmptyStore)
    /\ ws_connected = FALSE
    /\ mode = "rest"
    /\ ds_mode = "rest"
    /\ ws_next_retry_at = 0
    /\ ws_backoff = ws_backoff_min
    /\ ws_good_ticks = 0
    /\ last_rest_price_poll = 0
    /\ last_rest_kline_poll = 0
    /\ pc = "new"
    /\ ever_ws = FALSE
    /\ quiet_since = 0
    /\ last_premium_poll = 0
    /\ last_funding_poll = 0
    /\ last_oi_poll = 0
    /\ derivatives = NoDerivatives
    /\ obs = [NewObsFrom(0) EXCEPT !.finished = "new"]

\* SourceManager.__init__: the forced refresh of the server time, the bootstrap
\* state sync and, for the preferred mode ws, the initial connect.
ConstructSM ==
    /\ pc = "new"
    /\ \E fetch \in {f \in FetchOutcomes : f.lat = 0},
          sync \in SyncOutcomes(state_sync_klines),
          connect_ok \in (IF preferred_mode = "ws" THEN BOOLEAN ELSE {FALSE}) :
           LET r == RefreshServerTime(NewClockSync, TRUE, clock_time, fetch)
               faults == ConstructFaults(fetch, sync, connect_ok, preferred_mode)
               failed == preferred_mode = "ws" /\ ~connect_ok
               built == [NewObsFrom(0) EXCEPT
                            !.finished = IF ConstructRaises(faults) THEN "construct_raised"
                                         ELSE "constructed",
                            !.sync_raised = sync.raise_at # 0]
               called == [built EXCEPT !.connect_hold = 0]
           IN /\ clock' = r.c
              /\ clock_call' = [NoClockCall EXCEPT !.call = "refresh_server_time",
                                                   !.fetches = r.fetches]
              /\ SetStore(StateSyncFromRest(EmptyStore, sync, NowDt))
              /\ ws_connected' = connect_ok
              /\ mode' = (IF connect_ok THEN "ws" ELSE "rest")
              /\ ds_mode' = (IF connect_ok THEN "ws" ELSE "rest")
              /\ ws_next_retry_at' = (IF failed THEN now_mono + ws_backoff_min ELSE 0)
              /\ ws_backoff' = (IF failed THEN NextBackoff(ws_backoff_min) ELSE ws_backoff_min)
              /\ ever_ws' = connect_ok
              /\ obs' = IF preferred_mode # "ws" THEN built
                        ELSE IF connect_ok THEN called
                        ELSE Failed(called, ws_backoff_min)
              /\ pc' = IF ConstructRaises(faults) THEN "new" ELSE "refresh"
    /\ UNCHANGED <<preferred_mode, ws_good_ticks, last_rest_price_poll, last_rest_kline_poll,
                   now_mono, quiet_since, derivVars, clock_time, notSMClock>>

\* The construction and the start of the first refresh().
ConstructNext ==
    \/ ConstructSM
    \/ AttemptWsEvents
    \/ EvaluateStaleness
    \/ PollDerivativesOk

(***************************************************************************)
(* calculations.compute_oi_zscore_15m.                                     *)
(***************************************************************************)

\* The longest list of 15-minute open-interest windows.
MaxOiSamples == 4

\* baseline_windows (96 in build_signal_context), in windows.
baseline_windows == 2

\* The open interest of a window.
OiValues == {1, 2, 4}

OiLists == UNION { [1..n -> OiValues] : n \in 0..MaxOiSamples }

RECURSIVE SumOf(_)
SumOf(xs) == IF xs = <<>> THEN 0 ELSE Head(xs) + SumOf(Tail(xs))

RECURSIVE SumOfSquares(_)
SumOfSquares(xs) == IF xs = <<>> THEN 0 ELSE Head(xs) * Head(xs) + SumOfSquares(Tail(xs))

\* xs[-n:] for n > 0
LastOf(xs, n) == SubSeq(xs, IF Len(xs) > n THEN Len(xs) - n + 1 ELSE 1, Len(xs))

\* A z-score as the exact number num / sqrt(den_sq); 0.0 is 0 / sqrt(1).
ZscoreZero == [defined |-> TRUE, num |-> 0, den_sq |-> 1]

ZscoreNone == [defined |-> FALSE, num |-> 0, den_sq |-> 1]

\* (current - mean(baseline)) / pstdev(baseline), with both terms times
\* len(baseline): the numerator is n * current - sum, and the square of the
\* denominator is n * sum of squares - sum * sum.
ZscoreOf(current, baseline) ==
    LET n == Len(baseline)
        den_sq == n * SumOfSquares(baseline) - SumOf(baseline) * SumOf(baseline)
        num == n * current - SumOf(baseline)
    IN IF den_sq = 0 \/ num = 0 THEN ZscoreZero
       ELSE [defined |-> TRUE, num |-> num, den_sq |-> den_sq]

\* compute_oi_zscore_15m(oi_windows, baseline_windows)
ComputeOiZscore15m(oi_windows, windows) ==
    IF Len(oi_windows) < 2 THEN ZscoreNone
    ELSE LET current == oi_windows[Len(oi_windows)]
             baseline == LastOf(SubSeq(oi_windows, 1, Len(oi_windows) - 1), windows)
         IN IF Len(baseline) < 2 THEN ZscoreNone
            ELSE ZscoreOf(current, baseline)

NoZscoreCall == [called |-> FALSE, zscore |-> ZscoreNone]

OiInit ==
    /\ oi_in \in OiLists
    /\ oi_out = NoZscoreCall

OiIdle ==
    /\ oi_in = <<>>
    /\ oi_out = NoZscoreCall

\* compute_oi_zscore_15m(oi_15m_windows, baseline_windows=96)
ComputeOiZscoreCall ==
    /\ ~oi_out.called
    /\ oi_out' = [called |-> TRUE, zscore |-> ComputeOiZscore15m(oi_in, baseline_windows)]
    /\ UNCHANGED <<oi_in, notOi>>

OiNext ==
    \/ ComputeOiZscoreCall

(***************************************************************************)
(* The strategies' generate and calculations.calculate_position_usdt.      *)
(* Prices and the ATR are in ticks, returns in percent, funding in units   *)
(* of funding_extreme.                                                     *)
(***************************************************************************)

StrategyNames ==
    {"vol_breakout_card", "funding_oi_skew", "liquidation_follow", "fake_breakout_reversal"}

\* settings.return_threshold, in percent
return_threshold == 1

\* settings.atr_spike_multiplier
atr_spike_multiplier == 2

\* settings.funding_extreme
funding_extreme == 1

\* settings.oi_zscore
oi_zscore_threshold == 2

\* settings.oi_delta_pct, in percent
oi_delta_pct_threshold == 10

\* abs(return_5m) >= 0.01 of liquidation_follow, in percent
liquidation_min_return == 1

\* settings.sweep_pct, in permille
sweep_permille == 1

\* settings.wick_body_ratio
wick_body_ratio == 2

\* settings.stop_buffer_atr, in tenths
stop_buffer_atr_tenths == 3

\* settings.min_atr_pct, in permille
min_atr_permille == 1

\* max_kline_age_seconds
max_kline_age_seconds == 90

\* len(klines_1m) < 21
min_klines == 21

\* settings.max_risk_usdt
max_risk_usdt == 10

\* The last candle of klines_1m: one that sweeps the high of the 20 candles
\* before it, one that sweeps their low, one that does neither.
LatestCandles ==
    { [open |-> 1000, high |-> 1020, low |-> 998, close |-> 1005],
      [open |-> 1000, high |-> 1002, low |-> 980, close |-> 995],
      [open |-> 1000, high |-> 1001, low |-> 999, close |-> 1000] }

\* SignalContext: price is the last trade or poll, later than the candles;
\* kline_age is timestamp - last_kline_close_ts in seconds, None without a
\* last_kline_close_ts; prev_20m_high and prev_20m_low are those of
\* klines_1m[-21:-1].
SignalContexts ==
    [ price : {970, 1000, 1030},
      return_5m : {0 - 2, 0, 2},
      atr_15m : {0, 10},
      atr_15m_baseline : {4, 10},
      funding_rate : {0 - 1, 1},
      open_interest_zscore_15m : {None, 3},
      open_interest_delta_15m : {None, 10},
      kline_age : {None, 60, 120},
      n_klines : {min_klines - 1, min_klines},
      latest : LatestCandles,
      prev_20m_high : {1010},
      prev_20m_low : {990} ]

NoCard == [result |-> "none", side |-> "none", entry |-> 0, stop |-> 0, rejected |-> FALSE]

\* calculate_position_usdt(entry, stop, max_risk_usdt), for entry > 0: the
\* ValueError, or max_risk_usdt / risk_ratio as the exact quotient num / den.
CalculatePositionUsdt(entry, stop, max_risk) ==
    IF Abs(entry - stop) <= 0
    THEN [raised |-> TRUE, num |-> 0, den |-> 1]
    ELSE [raised |-> FALSE, num |-> max_risk * entry, den |-> Abs(entry - stop)]

\* The rest of generate from the call of calculate_position_usdt on: no
\* generate has a try block, so the ValueError leaves it.
CardOrRaise(side, entry, stop) ==
    IF CalculatePositionUsdt(entry, stop, max_risk_usdt).raised
    THEN [result |-> "ValueError", side |-> side, entry |-> entry, stop |-> stop,
          rejected |-> TRUE]
    ELSE [result |-> "card", side |-> side, entry |-> entry, stop |-> stop,
          rejected |-> FALSE]

\* VolBreakoutStrategy.generate
VolBreakoutGenerate(ctx) ==
    LET return_trigger == Abs(ctx.return_5m) > return_threshold
        atr_trigger == ctx.atr_15m > ctx.atr_15m_baseline * atr_spike_multiplier
        side == IF ctx.return_5m >= 0 THEN "LONG" ELSE "SHORT"
        entry == ctx.price
        stop == IF side = "LONG" THEN entry - (12 * ctx.atr_15m) \div 10
                ELSE entry + (12 * ctx.atr_15m) \div 10
    IN IF ~(return_trigger \/ atr_trigger) THEN NoCard
       ELSE CardOrRaise(side, entry, stop)

\* FundingOiSkewStrategy.generate
FundingOiSkewGenerate(ctx) ==
    LET funding == ctx.funding_rate
        crowded_long == funding > 0 /\ ctx.return_5m > 0
        crowded_short == funding < 0 /\ ctx.return_5m < 0
        side == IF crowded_long THEN "SHORT" ELSE "LONG"
        entry == ctx.price
        stop == IF side = "SHORT" THEN entry + ctx.atr_15m ELSE entry - ctx.atr_15m
    IN IF ctx.open_interest_zscore_15m = None THEN NoCard
       ELSE IF Abs(funding) < funding_extreme THEN NoCard
       ELSE IF ctx.open_interest_zscore_15m < oi_zscore_threshold THEN NoCard
       ELSE IF ~(crowded_long \/ crowded_short) THEN NoCard
       ELSE CardOrRaise(side, entry, stop)

\* LiquidationFollowStrategy.generate
LiquidationFollowGenerate(ctx) ==
    LET trend_dir == IF ctx.return_5m > 0 THEN 1 ELSE 0 - 1
        funding_dir == IF ctx.funding_rate > 0 THEN 1 ELSE 0 - 1
        aligned == trend_dir = funding_dir
        trigger == /\ ctx.open_interest_delta_15m >= oi_delta_pct_threshold
                   /\ Abs(ctx.return_5m) >= liquidation_min_return
                   /\ aligned
        side == IF ctx.return_5m > 0 THEN "LONG" ELSE "SHORT"
        entry == ctx.price
        stop == IF side = "LONG" THEN entry - (15 * ctx.atr_15m) \div 10
                ELSE entry + (15 * ctx.atr_15m) \div 10
    IN IF ctx.open_interest_delta_15m = None THEN NoCard
       ELSE IF ~trigger THEN NoCard
       ELSE CardOrRaise(side, entry, stop)

\* (wick / max(body, 1e-9)) >= self.wick_body_ratio
WickBodyAtLeast(wick, body) ==
    IF body = 0 THEN wick > 0 ELSE wick >= wick_body_ratio * body

Max2(a, b) == IF a >= b THEN a ELSE b

Min2(a, b) == IF a <= b THEN a ELSE b

\* FakeBreakoutReversalStrategy.generate
FakeBreakoutReversalGenerate(ctx) ==
    LET latest == ctx.latest
        body == Abs(latest.close - latest.open)
        upper_wick == Max2(0, latest.high - Max2(latest.open, latest.close))
        lower_wick == Max2(0, Min2(latest.open, latest.close) - latest.low)
        sweep_high == /\ latest.high * Permille > ctx.prev_20m_high * (Permille + sweep_permille)
                      /\ latest.close < ctx.prev_20m_high
                      /\ WickBodyAtLeast(upper_wick, body)
        sweep_low == /\ latest.low * Permille < ctx.prev_20m_low * (Permille - sweep_permille)
                     /\ latest.close > ctx.prev_20m_low
                     /\ WickBodyAtLeast(lower_wick, body)
        side == IF sweep_high THEN "SHORT" ELSE "LONG"
        entry == ctx.price
        stop == IF sweep_high
                THEN latest.high + (stop_buffer_atr_tenths * ctx.atr_15m) \div 10
                ELSE latest.low - (stop_buffer_atr_tenths * ctx.atr_15m) \div 10
    IN IF ctx.kline_age = None THEN NoCard
       ELSE IF ctx.kline_age > max_kline_age_seconds THEN NoCard
       ELSE IF ctx.atr_15m * Permille < min_atr_permille * ctx.price THEN NoCard
       ELSE IF ctx.n_klines < min_klines THEN NoCard
       ELSE IF ~(sweep_high \/ sweep_low) THEN NoCard
       ELSE CardOrRaise(side, entry, stop)

\* strategy.generate(signal_context)
Generate(strategy, ctx) ==
    CASE strategy = "vol_breakout_card" -> VolBreakoutGenerate(ctx)
      [] strategy = "funding_oi_skew" -> FundingOiSkewGenerate(ctx)
      [] strategy = "liquidation_follow" -> LiquidationFollowGenerate(ctx)
      [] OTHER -> FakeBreakoutReversalGenerate(ctx)

NotGenerated == [called |-> FALSE, out |-> NoCard]

StratInit ==
    /\ strat_in \in [strategy : StrategyNames, ctx : SignalContexts]
    /\ strat_out = NotGenerated

StratIdle ==
    /\ strat_in = [strategy |-> "none"]
    /\ strat_out = NotGenerated

\* card = strategy.generate(signal_context) of _collect_strategy_cards
GenerateCall ==
    /\ ~strat_out.called
    /\ strat_out' = [called |-> TRUE, out |-> Generate(strat_in.strategy, strat_in.ctx)]
    /\ UNCHANGED <<strat_in, notStrat>>

StratNext ==
    \/ GenerateCall

InitArbOrder == ArbOrderInit /\ RiskIdle /\ SMIdle /\ DsIdle /\ ClockIdle /\ GateIdle /\ DriverIdle /\ AggIdle /\ OiIdle /\ StratIdle

InitArbWindow == ArbWindowInit /\ RiskIdle /\ SMIdle /\ DsIdle /\ ClockIdle /\ GateIdle /\ DriverIdle /\ AggIdle /\ OiIdle /\ StratIdle

InitSM == SMInit /\ RiskIdle /\ ArbIdle /\ DsIdle /\ ClockIdle /\ GateIdle /\ DriverIdle /\ AggIdle /\ OiIdle /\ StratIdle

InitRisk == RiskInit /\ SMIdle /\ ArbIdle /\ DsIdle /\ ClockIdle /\ GateIdle /\ DriverIdle /\ AggIdle /\ OiIdle /\ StratIdle

InitDs == DsInit /\ RiskIdle /\ SMIdle /\ ArbIdle /\ ClockIdle /\ GateIdle /\ DriverIdle /\ AggIdle /\ OiIdle /\ StratIdle

\* Sequences of DataStore operations.
SpecDs == InitDs /\ [][DsNext]_vars

\* Threads that call the DataStore at the same time.
InitClock == ClockInit /\ RiskIdle /\ SMIdle /\ ArbIdle /\ DsIdle /\ GateIdle /\ DriverIdle /\ AggIdle /\ OiIdle /\ StratIdle

SpecClock == InitClock /\ [][ClockNext]_vars

InitGate == GateInit /\ RiskIdle /\ SMIdle /\ ArbIdle /\ DsIdle /\ ClockIdle /\ DriverIdle /\ AggIdle /\ OiIdle /\ StratIdle

SpecGate == InitGate /\ [][GateNext]_vars

InitDriver == DriverInit /\ RiskIdle /\ SMIdle /\ ArbIdle /\ DsIdle /\ ClockIdle /\ GateIdle /\ AggIdle /\ OiIdle /\ StratIdle

SpecDriver == InitDriver /\ [][DriverNext]_vars

\* time.sleep returns.
SpecDriverFair == InitDriver /\ [][DriverNext]_vars /\ WF_vars(DriverSleep)

InitAgg == AggInit /\ RiskIdle /\ SMIdle /\ ArbIdle /\ DsIdle /\ ClockIdle /\ GateIdle /\ DriverIdle /\ OiIdle /\ StratIdle

SpecAgg == InitAgg /\ [][AggNext]_vars

InitSMNew == SMNew /\ RiskIdle /\ ArbIdle /\ DsIdle /\ ClockIdle /\ GateIdle /\ DriverIdle /\ AggIdle /\ OiIdle /\ StratIdle

SpecSMConstruct == InitSMNew /\ [][ConstructNext]_vars

InitOi == OiInit /\ RiskIdle /\ SMIdle /\ ArbIdle /\ DsIdle /\ ClockIdle /\ GateIdle /\ DriverIdle /\ AggIdle /\ StratIdle

SpecOi == InitOi /\ [][OiNext]_vars

InitStrat == StratInit /\ RiskIdle /\ SMIdle /\ ArbIdle /\ DsIdle /\ ClockIdle /\ GateIdle /\ DriverIdle /\ AggIdle /\ OiIdle

SpecStrat == InitStrat /\ [][StratNext]_vars

SpecDsThreads == InitDs /\ [][ThreadsNext]_vars

\* choose_best on candidate lists outside the dedupe window.
SpecArbOrder == InitArbOrder /\ [][ArbNext]_vars

\* choose_best under every last-sent lookup.
SpecArbWindow == InitArbWindow /\ [][ArbNext]_vars

\* The SourceManager under refresh() calls and the passing of time.
SpecSM == InitSM /\ [][SMNext]_vars

\* The SourceManager with a working stream and REST client; the driver loop
\* keeps calling refresh().
SpecSMHealthy == InitSM /\ [][HealthyNext]_vars /\ WF_vars(HealthyNext)

\* The RiskEngine under direct calls.
SpecSMDeriv == InitSM /\ [][DerivNext]_vars

SpecRisk == InitRisk /\ [][RiskNext]_vars

\* The SignalService evaluating symbols tick after tick.
SpecService == InitRisk /\ [][ServiceNext]_vars

(***************************************************************************)
(* Claims about the RiskEngine and the cards evaluate_symbol returns.      *)
(***************************************************************************)

\* The times at which the claims evaluate a symbol: the run and the cooldown after it.
ClaimTimes == 0..(MaxRiskTime + cooldown_after_trigger_minutes)

\* Today's realized loss and cards_count as evaluate resolves them.
LossOn(now) ==
    ResolveRealizedLoss(DateKey(now), MapGet(risk_state.days, DateKey(now), DefaultDay))

CountOn(now) == MapGet(risk_state.days, DateKey(now), DefaultDay).cards_count

Triggered(s) == s \in DOMAIN risk_state.last_trigger_by_symbol

LastTrigger(s) ==
    risk_state.last_trigger_by_symbol[s].date * MinutesPerDay
    + risk_state.last_trigger_by_symbol[s].minute

\* C6 as stated: at most one card per symbol within any window of
\* cooldown_after_trigger_minutes, whatever the configuration: two cards of one
\* symbol are never less than the cooldown apart.
C6_OneCardPerCooldownWindow ==
    minGap = None \/ minGap >= cooldown_after_trigger_minutes

\* C6 amended: two strategy cards of one symbol are never less than the cooldown
\* apart, and with the test-emit mode off evaluate_symbol returns no other card.
C6_OneStrategyCardPerCooldownWindow ==
    /\ minStrategyGap = None \/ minStrategyGap >= cooldown_after_trigger_minutes
    /\ ~test_emit_enabled =>
           /\ cardKinds \subseteq {"strategy"}
           /\ minGap = None \/ minGap >= cooldown_after_trigger_minutes

\* C6 witness: a symbol got a second strategy card exactly one cooldown after its first.
C6_Witness ==
    /\ minStrategyGap = cooldown_after_trigger_minutes
    /\ \E s \in SymbolSet : lastStrategyCard[s] = rnow /\ rnow >= cooldown_after_trigger_minutes

\* C7 as stated: while the kill switch is enabled evaluate denies with
\* kill_switch_enabled and evaluate_symbol never returns a card.
C7_KillSwitchNoCard ==
    kill_switch =>
        /\ \A s \in SymbolSet, t \in ClaimTimes :
               RiskEvaluate(risk_state, s, t) = Deny("kill_switch_enabled")
        /\ cardKinds = {}

\* C7 amended: while the kill switch is enabled evaluate denies every symbol at
\* every time with kill_switch_enabled and evaluate_symbol never returns a strategy
\* card; it returns no card at all when the test-emit mode is off.
C7_KillSwitchNoStrategyCard ==
    kill_switch =>
        /\ \A s \in SymbolSet, t \in ClaimTimes :
               RiskEvaluate(risk_state, s, t) = Deny("kill_switch_enabled")
        /\ "strategy" \notin cardKinds
        /\ \A s \in SymbolSet : lastStrategyCard[s] = None /\ ~Triggered(s)
        /\ ~test_emit_enabled => cardKinds = {} /\ \A s \in SymbolSet : lastCard[s] = None

\* C7 witness: under the kill switch evaluate_symbol has run for a test-emit symbol
\* and the clock has moved on.
C7_Witness ==
    /\ kill_switch
    /\ cardKinds = {"test_emit_dryrun"}
    /\ \E s \in SymbolSet : lastCard[s] # None /\ lastCard[s] < rnow

\* C8: evaluate returns the reason of the first rule that applies, in the order
\* kill switch, daily loss, daily cap, symbol cooldown, else ok; allowed exactly
\* when the reason is ok.
C8_FirstApplicableRule ==
    \A s \in SymbolSet, t \in ClaimTimes :
        LET d == RiskEvaluate(risk_state, s, t)
            loss == LossOn(t) >= max_daily_loss_usdt
            cap == CountOn(t) >= max_cards_per_day
            cool == Triggered(s) /\ t < LastTrigger(s) + cooldown_after_trigger_minutes
        IN  /\ d.allowed <=> d.reason = "ok"
            /\ d.reason = "kill_switch_enabled" <=> kill_switch
            /\ d.reason = "max_daily_loss_exceeded" <=> ~kill_switch /\ loss
            /\ d.reason = "max_cards_per_day_exceeded" <=> ~kill_switch /\ ~loss /\ cap
            /\ d.reason = "symbol_cooldown_active" <=> ~kill_switch /\ ~loss /\ ~cap /\ cool
            /\ d.reason = "ok" <=> ~kill_switch /\ ~loss /\ ~cap /\ ~cool
            /\ decision # NoDecision /\ decision.symbol = s /\ t = rnow =>
                   decision.reason = d.reason /\ decision.allowed = d.allowed

\* C8 witness: an evaluate call returned max_cards_per_day_exceeded for a symbol
\* whose cooldown is active too.
C8_Witness ==
    /\ decision.reason = "max_cards_per_day_exceeded"
    /\ Triggered(decision.symbol)
    /\ rnow < LastTrigger(decision.symbol) + cooldown_after_trigger_minutes

\* C9: with no kill switch, loss limit or daily cap in force at now, a symbol
\* last triggered at T is denied with symbol_cooldown_active for T <= now < T +
\* cooldown and allowed with ok from T + cooldown on; a symbol is never denied for
\* the cooldown of another one.
C9_CooldownWindow ==
    \A s \in SymbolSet, now \in ClaimTimes :
        LET d == RiskEvaluate(risk_state, s, now)
            free == ~kill_switch /\ LossOn(now) < max_daily_loss_usdt
                    /\ CountOn(now) < max_cards_per_day
        IN  /\ free /\ Triggered(s) /\ LastTrigger(s) <= now
                 /\ now < LastTrigger(s) + cooldown_after_trigger_minutes
                 => d = Deny("symbol_cooldown_active")
            /\ free /\ Triggered(s) /\ now >= LastTrigger(s) + cooldown_after_trigger_minutes
                 => d = [allowed |-> TRUE, reason |-> "ok"]
            /\ free /\ ~Triggered(s) => d = [allowed |-> TRUE, reason |-> "ok"]
            /\ d.reason = "symbol_cooldown_active" =>
                   Triggered(s) /\ now < LastTrigger(s) + cooldown_after_trigger_minutes

\* C9 witness: one symbol is in its cooldown and an evaluate call just allowed
\* the other, which was never triggered.
C9_Witness ==
    /\ decision.allowed
    /\ ~Triggered(decision.symbol)
    /\ \E s \in SymbolSet :
           /\ Triggered(s)
           /\ rnow > LastTrigger(s)
           /\ RiskEvaluate(risk_state, s, rnow) = Deny("symbol_cooldown_active")

\* C10: once max_cards_per_day triggers are recorded on a date, evaluate is denied
\* for every symbol at every time of that date; and while record_trigger is only
\* called after an allowed evaluate, no date's cards_count exceeds max_cards_per_day.
C10_DailyCap ==
    /\ \A s \in SymbolSet, now \in ClaimTimes :
           CountOn(now) >= max_cards_per_day => ~RiskEvaluate(risk_state, s, now).allowed
    /\ ~unguarded =>
           \A d \in DOMAIN risk_state.days : risk_state.days[d].cards_count <= max_cards_per_day

\* C10 witness: guarded triggers alone filled a date's cap, and a symbol that was
\* never triggered has just been denied on that date.
C10_Witness ==
    /\ ~unguarded
    /\ CountOn(rnow) = max_cards_per_day
    /\ ~Triggered(decision.symbol)
    /\ decision.reason = "max_cards_per_day_exceeded"

(***************************************************************************)
(* Claims about the SourceManager's mode.                                  *)
(***************************************************************************)

\* C1: the mode changes from rest to ws only in a recovery attempt whose REST
\* state sync fetched and merged the candles of every symbol without raising,
\* and a recovery attempt whose sync raises leaves the mode rest.
C1_SwitchOnlyAfterSync ==
    [][/\ (mode = "rest" /\ mode' = "ws")
          => /\ pc = "recover"
             /\ obs'.recover = "switched"
             /\ obs'.sync_done = Len(Symbols)
             /\ ~obs'.sync_raised
       /\ (pc = "recover" /\ obs'.sync_raised) => mode' = "rest"]_vars

\* A recovery attempt has synced every symbol and switched the mode to ws.
C1_Witness ==
    /\ pc = "idle"
    /\ obs.start_mode = "rest"
    /\ obs.recover = "switched"
    /\ obs.sync_done = Len(Symbols)
    /\ mode = "ws"

\* C2 as stated: when a recovery attempt has just switched the mode back to ws
\* (the mode had been ws before), every symbol's candle buffer holds at least
\* state_sync_klines candles.
C2_BufferHoldsStateSyncKlines ==
    (pc = "idle" /\ obs.recover = "switched" /\ obs.had_ws)
        => \A s \in SymbolSet : klines[s] >= state_sync_klines

\* The greater of the two staleness thresholds, in ms.
StaleThresholdMs == Max(stale_seconds * MsPerSec, kline_stale_ms)

\* C3 as stated: a refresh() that starts in ws mode and returns when the stream
\* has been silent for more than the staleness threshold (since its last event,
\* or since the mode became ws) leaves the mode rest.
C3_SilentStreamFallsBack ==
    (/\ pc = "idle"
     /\ obs.finished = "returned"
     /\ obs.start_mode = "ws"
     /\ (now_mono - quiet_since) * MsPerSec > StaleThresholdMs)
        => mode = "rest"

\* C4 as stated: a refresh() that starts in ws mode, finds after the drain a
\* price raw age above stale_seconds * 1000 and returns, leaves the mode rest.
C4_StaleRefreshEndsInRest ==
    (/\ pc = "idle"
     /\ obs.finished = "returned"
     /\ obs.start_mode = "ws"
     /\ obs.price_age_max # None
     /\ obs.price_age_max > stale_seconds * MsPerSec)
        => mode = "rest"

\* C4, amended: such a refresh() leaves the mode rest, unless its own recovery
\* attempt read at least ws_recover_good_ticks fresh ticks and resynced every
\* symbol, which switches the mode back to ws before the call returns.
C4_StaleRefreshEndsInRestOrRecovered ==
    (/\ pc = "idle"
     /\ obs.finished = "returned"
     /\ obs.start_mode = "ws"
     /\ obs.price_age_max # None
     /\ obs.price_age_max > stale_seconds * MsPerSec)
        => \/ mode = "rest"
           \/ /\ obs.recover = "switched"
              /\ obs.fresh_ticks >= ws_recover_good_ticks
              /\ obs.sync_done = Len(Symbols)
              /\ ~obs.sync_raised

\* A refresh() found a stale price and returned in rest mode.
C4_Witness ==
    /\ pc = "idle"
    /\ obs.finished = "returned"
    /\ obs.start_mode = "ws"
    /\ obs.price_age_max # None
    /\ obs.price_age_max > stale_seconds * MsPerSec
    /\ obs.stale_switch = "stale"
    /\ mode = "rest"

\* The refresh() calls left to the run, the one about to start included.
RefreshesLeft == MaxNow - now_mono + 1

\* The refresh() calls a recovery needs when every read delivers a fresh tick:
\* those until the retry time, then one per missing good tick.
RefreshesToRecover ==
    Max(ws_next_retry_at - now_mono, 0) + Max(ws_recover_good_ticks - ws_good_ticks, 1)

\* C5: with a working stream and REST client, rest mode with preferred mode ws
\* leads to ws mode (if the run has the refresh() calls left that the retry time
\* and the missing good ticks take).
C5_RecoveryLiveness ==
    (/\ pc = "refresh"
     /\ mode = "rest"
     /\ preferred_mode = "ws"
     /\ RefreshesToRecover <= RefreshesLeft)
        ~> (mode = "ws")

\* Good ticks were accumulated over two recovery attempts and the second
\* switched the mode to ws.
C5_Witness ==
    /\ pc = "idle"
    /\ obs.start_mode = "rest"
    /\ obs.recover = "switched"
    /\ obs.fresh_ticks < obs.good_total
    /\ obs.good_total >= ws_recover_good_ticks
    /\ mode = "ws"

(***************************************************************************)
(* Claims about the Arbitrator.                                            *)
(***************************************************************************)

\* The candidate list in the order p of its indices.
Permuted(cards, p) == [i \in 1..Len(cards) |-> cards[p[i]]]

\* C11 as stated: choose_best returns the same card for every permutation of
\* the candidate list, also when candidates tie in priority, confidence and TTL.
C11_PermutationInvariant ==
    arb_result.called
        => \A p \in Permutations(1..Len(arb_cards)) :
               ChooseBest(Permuted(arb_cards, p), arb_symbol, arb_timestamp, arb_last_sent)
                   = arb_result.card

\* C12: outside the dedupe window a non-empty candidate list yields one of its
\* cards, and no candidate has a higher priority, or the same priority and a
\* higher confidence, or the same priority and confidence and a shorter TTL.
C12_WinnerIsMaximal ==
    (/\ arb_result.called
     /\ arb_cards # <<>>
     /\ ~(arb_last_sent[arb_symbol] # None
          /\ arb_timestamp - arb_last_sent[arb_symbol] <= dedupe_window_minutes))
        => /\ Len(arb_result.card) = 1
           /\ \E i \in 1..Len(arb_cards) : arb_cards[i] = arb_result.card[1]
           /\ \A i \in 1..Len(arb_cards) :
                  LET c == arb_cards[i]
                      w == arb_result.card[1]
                  IN  /\ c.priority <= w.priority
                      /\ c.priority = w.priority => c.confidence <= w.confidence
                      /\ (c.priority = w.priority /\ c.confidence = w.confidence)
                             => c.ttl_minutes >= w.ttl_minutes

\* Two candidates tie in priority and confidence, neither is dropped as similar
\* to the other, and the one of the shorter TTL has won.
C12_Witness ==
    /\ arb_result.called
    /\ Len(arb_cards) >= 2
    /\ arb_last_sent[arb_symbol] = 0
    /\ Len(arb_result.card) = 1
    /\ \E i \in 1..Len(arb_cards) :
           /\ arb_cards[i].priority = arb_result.card[1].priority
           /\ arb_cards[i].confidence = arb_result.card[1].confidence
           /\ arb_cards[i].ttl_minutes > arb_result.card[1].ttl_minutes
           /\ arb_cards[i].side # arb_result.card[1].side

\* C13: when the symbol's last-sent time is within dedupe_window of
\* ctx.timestamp (boundary included) choose_best returns no card, and the
\* last-sent times of the other symbols do not change what it returns.
C13_DedupeWindowPerSymbol ==
    arb_result.called
        => /\ (/\ arb_last_sent[arb_symbol] # None
               /\ arb_timestamp - arb_last_sent[arb_symbol] <= dedupe_window_minutes)
                  => arb_result.card = <<>>
           /\ \A other \in [SymbolSet -> {None} \cup 0..MaxArbTime] :
                  other[arb_symbol] = arb_last_sent[arb_symbol]
                      => ChooseBest(arb_cards, arb_symbol, arb_timestamp, other)
                             = arb_result.card

\* A call with a candidate exactly dedupe_window after the symbol's last card
\* returned none.
C13_Witness ==
    /\ arb_result.called
    /\ arb_cards # <<>>
    /\ arb_last_sent[arb_symbol] # None
    /\ arb_timestamp - arb_last_sent[arb_symbol] = dedupe_window_minutes
    /\ arb_result.card = <<>>

(***************************************************************************)
(* Claims about the stream paths of the SourceManager.                     *)
(***************************************************************************)

\* C14: when _attempt_ws_events runs in ws mode with the stream connected and
\* read_events() or _apply_ws_events raises, the step ends with the mode rest,
\* the stream closed, and refresh() going on to its next step.
C14_WsExceptionFallsBack ==
    [][(pc = "refresh" /\ mode = "ws" /\ ws_connected /\ obs'.stream_raised)
           => /\ mode' = "rest"
              /\ ds_mode' = "rest"
              /\ obs'.closed
              /\ ~ws_connected'
              /\ pc' = "stale"
              /\ obs'.finished = "running"]_vars

\* _apply_ws_events raised in ws mode after it had stored a tick, and the mode
\* is rest with the stream closed.
C14_Witness ==
    /\ pc = "stale"
    /\ obs.start_mode = "ws"
    /\ obs.drained = "apply_raised"
    /\ \E s \in SymbolSet : last_price_ts[s] = NowDt
    /\ mode = "rest"
    /\ obs.closed
    /\ ~ws_connected

\* C15 as stated: when read_events() or _apply_ws_events raised during a
\* refresh(), close() has been called on the stream by the end of that refresh().
C15_StreamExceptionCloses ==
    (pc = "idle" /\ obs.stream_raised) => obs.closed

\* A read_events() or connect() failure happens in this step.
StreamFailureStep ==
    \/ pc = "refresh" /\ obs'.drained = "raised"
    \/ pc = "recover" /\ obs'.recover \in {"connect_failed", "read_failed"}

\* The retry delay the failure of this step finds: ws_backoff_min after the
\* connect() of the same step, else the delay of the state before.
DelayInForce ==
    IF pc = "recover" /\ obs'.recover = "read_failed" /\ ~ws_connected
    THEN ws_backoff_min ELSE ws_backoff

\* C16 as stated: every connect or read failure schedules the next retry at now
\* plus the delay in force and doubles the delay up to ws_backoff_max.
C16_EveryFailureSchedulesRetry ==
    [][StreamFailureStep
           => /\ ws_next_retry_at' = now_mono + DelayInForce
              /\ ws_backoff' = Min(DelayInForce * 2, ws_backoff_max)]_vars

\* C17 as stated: connect() is not called before the time the connect and read
\* failures so far have put it off to, their time plus the delay in force.
C17_NoConnectBeforeRetryTime ==
    obs.connect_hold # None => now_mono >= obs.connect_hold

\* C19: the DataStore's mode equals the SourceManager's after construction and
\* after every step of refresh(), a step that changes the mode sets both, and
\* _switch_mode to the current mode changes neither.
C19_ModesAgree ==
    /\ [](/\ ds_mode = mode
          /\ SwitchedModes(mode, ds_mode, mode) = [mode |-> mode, ds_mode |-> ds_mode])
    /\ [][mode' # mode => ds_mode' = mode']_vars

\* A refresh() that started in rest mode has ended in ws mode, after one that
\* fell back from ws to rest.
C19_Witness ==
    /\ pc = "idle"
    /\ obs.start_mode = "rest"
    /\ obs.had_ws
    /\ obs.recover = "switched"
    /\ mode = "ws"
    /\ ds_mode = "ws"

\* C18: a _poll_derivatives step in which fetches raise leaves the mode alone
\* and goes on to the next step of refresh(); every other fetch of a poll that
\* is due, for the remaining symbols and in the other polls, is stored, and every
\* poll that is due is marked as done.
C18_DerivativeFailureIsSkipped ==
    [][pc = "derivatives"
           => LET due == [poll \in DerivPolls |->
                            CASE poll = "premium" ->
                                     now_mono - last_premium_poll >= premiumindex_poll_seconds
                              [] poll = "funding" ->
                                     now_mono - last_funding_poll >= funding_poll_seconds
                              [] poll = "oi" -> now_mono - last_oi_poll >= oi_poll_seconds]
                  stored == [s \in SymbolSet |->
                               [premium |-> derivatives'[s].mark_price,
                                funding |-> derivatives'[s].funding_rate_history,
                                oi |-> derivatives'[s].open_interest]]
              IN  /\ mode' = mode
                  /\ ds_mode' = ds_mode
                  /\ obs'.finished # "raised"
                  /\ pc' = IF mode = "rest" THEN "rest_prices" ELSE "idle"
                  /\ \A f \in DerivFetches :
                         (due[f[1]] /\ f \notin obs'.deriv_failed)
                             => stored[f[2]][f[1]] = NowDt
                  /\ due["premium"] => last_premium_poll' = now_mono
                  /\ due["funding"] => last_funding_poll' = now_mono
                  /\ due["oi"] => last_oi_poll' = now_mono]_vars

\* The premium index fetch of the first symbol raised in ws mode: the second
\* symbol's premium index and the first symbol's open interest are stored, and
\* refresh() returned in ws mode.
C18_Witness ==
    /\ pc = "idle"
    /\ obs.finished = "returned"
    /\ obs.deriv_failed = {<<"premium", Symbols[1]>>}
    /\ derivatives[Symbols[1]].mark_price # NowDt
    /\ derivatives[Symbols[2]].mark_price = NowDt
    /\ derivatives[Symbols[1]].open_interest = NowDt
    /\ obs.start_mode = "ws"
    /\ mode = "ws"

(***************************************************************************)
(* Claims about the DataStore.                                             *)
(***************************************************************************)

\* C20 as stated: an operation changes a symbol's last_kline_close_ts only if it
\* is an upsert_ws_kline of that symbol with is_closed true.
C20_CloseTsOnlyOnClosedCandle ==
    [][\A s \in SymbolSet :
           ds'.last_kline_close_ts[s] # ds.last_kline_close_ts[s]
               => /\ ds_op'.op = "upsert_ws_kline"
                  /\ ds_op'.symbol = s
                  /\ ds_op'.is_closed]_vars

\* C21 as stated: an upsert_ws_kline whose candle has the open time of the last
\* candle of the buffer, streamed or merged from REST, leaves the open times of
\* the buffer as they are (the last entry is replaced, none is added).
C21_SameOpenTimeReplaces ==
    [][\A s \in SymbolSet :
           (/\ ds_op'.op = "upsert_ws_kline"
            /\ ds_op'.symbol = s
            /\ ds.kline_opens[s] # <<>>
            /\ ds'.last_ws_kline_open_time[s] = ds.kline_opens[s][Len(ds.kline_opens[s])])
               => ds'.kline_opens[s] = ds.kline_opens[s]]_vars

\* C22: what a reader finds in a returned snapshot, at any later time, is the
\* state of the symbol as the last complete operation before the snapshot left
\* it; its price is the one of the update that set its last_price_ts.
C22_SnapshotConsistent ==
    snap # NoSnap
        => /\ [price |-> snap.price,
               last_price_ts |-> snap.last_price_ts,
               last_kline_close_ts |-> snap.last_kline_close_ts,
               klines_1m |-> Items(snap.klines_1m, ds.kline_opens[snap.symbol])]
                  = snap.between
           /\ snap.price = snap.last_price_ts

\* A snapshot with a price and candles was returned, and a writer is now in the
\* middle of update_price for the same symbol, the price appended and
\* last_price_ts not yet set.
C22_Witness ==
    /\ snap # NoSnap
    /\ snap.price # None
    /\ snap.klines_1m.items # <<>>
    /\ \E t \in Writers :
           /\ threads[t].op = "update_price"
           /\ threads[t].symbol = snap.symbol
           /\ threads[t].done = 1
    /\ ds.price[snap.symbol] # ds.last_price_ts[snap.symbol]


\* A fetch of the last call succeeded.
FetchSucceeded(call) == \E i \in 1..Len(call.fetches) : call.fetches[i].ok

\* C23: after a refresh_server_time whose fetch of the server time fails the
\* clock is degraded, clock_skew_ms is 0, last_server_ms is absent and the next
\* non-forced refresh is due degraded_retry_sec after the call; the now_ms()
\* that follows returns the raw local time, unless a fetch that this now_ms()
\* makes itself succeeds.
C23_FailedRefreshDegrades ==
    /\ FailedRefresh(clock_call)
           => /\ clock.state = "degraded"
              /\ clock.clock_skew_ms = 0
              /\ clock.last_server_ms = None
              /\ clock.next_refresh_mono = clock_call.at + degraded_retry_sec
    /\ (clock_call.call = "now_ms" /\ clock_call.after_failed_refresh)
           => \/ clock_call.returned = clock_call.local_ms
              \/ FetchSucceeded(clock_call)

\* C23, as stated: the now_ms() that follows a failed refresh_server_time
\* returns the raw local time.
C23_FollowingNowMsIsLocal ==
    (clock_call.call = "now_ms" /\ clock_call.after_failed_refresh)
        => clock_call.returned = clock_call.local_ms

C23_Witness ==
    /\ clock_call.call = "now_ms"
    /\ clock_call.after_failed_refresh
    /\ clock_call.fetches # <<>>
    /\ ~FetchSucceeded(clock_call)
    /\ clock_call.returned = clock_call.local_ms
    /\ clock.next_refresh_mono = clock_call.at + degraded_retry_sec

\* The fetches of the last call that were forced.
ForcedFetches(call) == {i \in 1..Len(call.fetches) : call.fetches[i].forced}

\* C24: now_ms() issues a forced fetch of the server time only if no now_ms()
\* issued one within the refresh_cooldown_ms of local time before it; when the
\* drift check fails while that cooldown remains, now_ms() issues no forced
\* fetch, leaves the clock degraded and returns the raw local time.
C24_ForcedFetchCooldown ==
    clock_call.call = "now_ms"
        => /\ \A i \in ForcedFetches(clock_call) :
                  \/ clock_call.prev_forced = None
                  \/ clock_call.fetches[i].at - clock_call.prev_forced >= refresh_cooldown_ms
           /\ clock_call.branch = "cooldown_blocked"
                  => /\ ForcedFetches(clock_call) = {}
                     /\ clock.state = "degraded"
                     /\ clock_call.returned = clock_call.local_ms

\* C24, as stated: a now_ms() whose drift check fails while the cooldown
\* remains makes no call of the server at all.
C24_BlockedMakesNoServerCall ==
    (clock_call.call = "now_ms" /\ clock_call.branch = "cooldown_blocked")
        => clock_call.fetches = <<>>

C24_Witness ==
    /\ clock_call.call = "now_ms"
    /\ clock_call.branch = "cooldown_blocked"
    /\ clock_call.prev_forced # None
    /\ clock_call.local_ms - clock_call.prev_forced < refresh_cooldown_ms
    /\ clock_call.fetches = <<>>

\* C25: a now_ms() that returns with the clock degraded returns the raw local
\* time; a value other than the local time is the local time at the return plus
\* clock_skew_ms, of a clock that is synced at the return, after a drift check
\* that passed or a forced refresh that just succeeded.
C25_DegradedReturnsLocal ==
    clock_call.call = "now_ms"
        => /\ clock.state = "degraded" => clock_call.returned = clock_call.local_ms
           /\ clock_call.branch \in {"drift_ok", "refreshed"}
                  => /\ clock.state = "synced"
                     /\ clock_call.returned = clock_call.returned_at + clock.clock_skew_ms
           /\ clock_call.returned # clock_call.local_ms
                  => \/ clock_call.branch = "drift_ok"
                     \/ /\ clock_call.branch = "refreshed"
                        /\ clock_call.fetches[Len(clock_call.fetches)]
                               = [forced |-> TRUE, ok |-> TRUE,
                                  at |-> clock.last_sync_local_ms]

C25_Witness ==
    /\ clock_call.call = "now_ms"
    /\ clock.state = "degraded"
    /\ clock.clock_skew_ms # 0
    /\ clock_call.returned = clock_call.local_ms


\* The snapshot has a funding timestamp no older than funding_stale_ms.
FundingFresh(in) ==
    /\ in.funding_ts # None
    /\ in.now_ms_corrected - in.funding_ts <= funding_stale_ms

C27_LoopIsFaultIsolating ==
    /\ [](drv.running)
    /\ [][(drv'.raised # "none" /\ drv.raised = "none") => drv'.pc = "sleep"]_vars
    /\ \A n \in 1..MaxDriverTicks :
           (drv.tick = n /\ drv.raised # "none") ~> (drv.tick = n + 1 /\ drv.pc = "refresh")

C27_Witness ==
    /\ drv.survived = {"refresh", "evaluate_symbol", "send"}
    /\ drv.tick = MaxDriverTicks + 1
    /\ drv.pc = "refresh"
    /\ drv.running

\* C28: on a tick in which a REST price poll or a REST kline poll raises, no
\* card is emitted for any symbol.
C28_PollFaultEmitsNoCard ==
    drv.faults \cap UncaughtCalls # {} => (drv.cards = {} /\ drv.raised = "refresh")

\* C28, as stated: on a tick in which any REST or stream call raises, no card
\* is emitted for any symbol.
C28_AnyFaultEmitsNoCard ==
    drv.faults # {} => drv.cards = {}

C28_Witness ==
    /\ "poll_fetch_price" \in drv.faults
    /\ "fetch_open_interest" \in drv.faults
    /\ drv.pc = "sleep"
    /\ drv.cards = {}

\* C29: for every card of a tick both sinks are attempted: once the notifier
\* send has failed, by its result or by an exception, and the tick has gone on
\* to its sleep, the postback send of the same card has been made.
C29_BothSinksAttempted ==
    drv.pc = "sleep"
        => \A s \in drv.cards :
               drv.sinks[s].telegram # "not_sent" => drv.sinks[s].postback # "not_sent"


\* The groups of window candles counted from the end of the list: group g of n
\* ends window * (n - g) candles before the last candle.
GroupsFromEnd(candles_1m, window) ==
    LET n == Len(candles_1m) \div window
        len == Len(candles_1m)
    IN [g \in 1..n |->
           GroupOf(SubSeq(candles_1m, len - window * (n - g + 1) + 1,
                          len - window * (n - g)))]

\* C30: for a list of at least window candles the groups are aligned to the end
\* of the list: the last group is made of the last window candles, the
\* incomplete remainder is dropped from the front, and each group is (first
\* open, max high, min low, last close); a shorter list gives no group.
C30_GroupsAlignedToEnd ==
    agg_out.called
        => agg_out.grouped = (IF Len(agg_in) < AggWindow THEN <<>>
                              ELSE GroupsFromEnd(agg_in, AggWindow))


\* The local time between the sync that the checked clock holds and the reading
\* local_ms of the last now_ms().
SinceSync(call) == call.local_ms - call.checked.last_sync_local_ms

\* C35: in a now_ms() that finds the clock synced, the drift compared with
\* max_clock_error_ms is the local time elapsed since the last successful sync,
\* whatever the skew, and the drift check passes exactly when that time is at
\* most max_clock_error_ms.
C35_DriftIsTimeSinceSync ==
    (clock_call.call = "now_ms" /\ clock_call.checked.state = "synced")
        => /\ DriftMs(clock_call.checked, clock_call.local_ms) = SinceSync(clock_call)
           /\ clock_call.branch = "drift_ok" <=> SinceSync(clock_call) <= max_clock_error_ms

C35_Witness ==
    /\ clock_call.call = "now_ms"
    /\ clock_call.checked.state = "synced"
    /\ clock_call.checked.clock_skew_ms = ClockSkewMs
    /\ SinceSync(clock_call) = max_clock_error_ms + 1
    /\ clock_call.branch = "refreshed"
    /\ clock.clock_skew_ms = ClockSkewMs


\* C36: the counter of fresh ticks is 0 whenever the mode is ws; it grows only
\* in a recovery attempt in rest mode, it is reset exactly in the step that
\* switches the mode to ws, and no step taken in ws mode changes it.
C36_GoodTicksZeroInWs ==
    /\ [](mode = "ws" => ws_good_ticks = 0)
    /\ [][/\ ws_good_ticks' > ws_good_ticks => (mode = "rest" /\ pc = "recover")
          /\ ws_good_ticks' < ws_good_ticks => (mode = "rest" /\ mode' = "ws" /\ ws_good_ticks' = 0)
          /\ (mode = "rest" /\ mode' = "ws") => ws_good_ticks' = 0
          /\ mode = "ws" => ws_good_ticks' = ws_good_ticks]_vars

C36_Witness ==
    /\ mode = "ws"
    /\ obs.recover = "switched"
    /\ obs.good_total >= ws_recover_good_ticks
    /\ obs.start_mode = "rest"
    /\ ws_good_ticks = 0


\* C37: when the preferred mode is not ws, the mode is rest in every reachable
\* state, and neither the construction nor any refresh() has called the
\* stream's connect() or read_events().
C37_RestPreferredNeverStreams ==
    preferred_mode # "ws"
        => /\ mode = "rest"
           /\ ~ws_connected
           /\ ~ever_ws
           /\ obs.connect_hold = None
           /\ obs.drained = "none"
           /\ obs.recover \in {"not_run", "not_preferred"}
           /\ ~obs.stream_raised

C37_Witness ==
    /\ preferred_mode = "rest"
    /\ mode = "rest"
    /\ obs.recover = "not_preferred"
    /\ obs.finished = "returned"
    /\ now_mono = MaxNow


\* C33: constructing a SourceManager never raises, whichever of the fetch of
\* the server time, the bootstrap state sync and the initial connect fails;
\* after it the mode is rest if the preferred mode is not ws or the initial
\* connect failed and ws otherwise, and a failed initial connect puts the first
\* retry ws_backoff_min seconds after the construction.
C33_ConstructionNeverRaises ==
    /\ obs.finished # "construct_raised"
    /\ obs.finished = "constructed"
           => LET connect_failed == preferred_mode = "ws" /\ ~ws_connected
              IN /\ mode = (IF preferred_mode # "ws" \/ connect_failed THEN "rest" ELSE "ws")
                 /\ ds_mode = mode
                 /\ connect_failed => ws_next_retry_at = now_mono + ws_backoff_min
                 /\ obs.connect_hold # None <=> preferred_mode = "ws"

C33_Witness ==
    /\ obs.finished = "constructed"
    /\ clock.state = "degraded"
    /\ clock_call.fetches # <<>>
    /\ obs.sync_raised
    /\ preferred_mode = "ws"
    /\ ~ws_connected
    /\ mode = "rest"
    /\ ws_next_retry_at = ws_backoff_min


\* Values of entry_similar_pct and stop_similar_pct, in permille: nothing is
\* similar, the configured value, 100 percent.
SimilarityLevels == {0, entry_similar_permille, Permille}

\* choose_best outside the dedupe window with the dedupe step removed.
WithoutDedupe(cards) == IF cards = <<>> THEN <<>> ELSE <<SortedDesc(cards)[1]>>

\* C38: the similar-card dedupe never changes what choose_best returns: the
\* top-ranked candidate is kept, so the card returned is the one returned with
\* the dedupe step removed, for every entry_similar_pct and stop_similar_pct.
C38_DedupeKeepsWinner ==
    arb_result.called
        => /\ arb_result.card = WithoutDedupe(arb_cards)
           /\ \A e \in SimilarityLevels, p \in SimilarityLevels :
                  LET kept == KeepFromBy(<<>>, SortedDesc(arb_cards), e, p)
                  IN (IF kept = <<>> THEN <<>> ELSE <<SortedDesc(kept)[1]>>)
                         = WithoutDedupe(arb_cards)

C38_Witness ==
    /\ arb_result.called
    /\ arb_result.card # <<>>
    /\ Len(arb_cards) = MaxCandidates
    /\ Len(DedupeSimilar(arb_cards)) = 1


\* The exceptions of evaluating a symbol or delivering its card.
SymbolFaults == {"evaluate_symbol", "send_json_card", "send"}

\* C39: when evaluating a symbol or delivering its card raises, the symbols
\* after it are not evaluated on that tick (the tick goes to its sleep with the
\* symbols up to the failing one evaluated, and the next step starts the next
\* tick); every tick starts with nothing evaluated and evaluates the symbols
\* in the configured order from the first one on.
C39_FaultSkipsRestOfTick ==
    /\ [](/\ drv.raised \in SymbolFaults
              => drv.pc = "sleep" /\ drv.evaluated = SubSeq(Symbols, 1, drv.i)
          /\ drv.pc = "refresh" => drv.evaluated = <<>> /\ drv.i = 1
          /\ drv.evaluated = SubSeq(Symbols, 1, Len(drv.evaluated)))
    /\ [][drv.raised \in SymbolFaults
              => drv'.tick = drv.tick + 1 /\ drv'.pc = "refresh"]_vars

\* The tick after a tick in which evaluate_symbol raised has evaluated the
\* first symbol, whose delivery raised, and not the second.
C39_Witness ==
    /\ drv.tick = 2
    /\ drv.survived = {"evaluate_symbol", "send_json_card"}
    /\ drv.raised = "send_json_card"
    /\ drv.pc = "sleep"
    /\ drv.evaluated = <<Symbols[1]>>
    /\ Len(Symbols) > 1

\* The sinks have been called for the card of symbol s.
Delivered(s) ==
    drv.sinks[s].telegram # "not_sent" \/ drv.sinks[s].postback # "not_sent"

\* C34 (as stated): every card delivered to the sinks was preceded, in the same
\* tick, by a successful record_trigger for its symbol.
C34_DeliveredWasRecorded ==
    \A s \in SymbolSet :
        /\ Delivered(s) => s \in drv.recorded
        /\ s \in drv.record_raised => ~Delivered(s)

\* C34 (amended): every card of the strategies delivered to the sinks was
\* preceded, in the same tick, by a successful record_trigger for its symbol,
\* and a card whose record_trigger raised reaches no sink; a test_emit_dryrun
\* card is delivered without a record_trigger.
C34_StrategyCardWasRecorded ==
    \A s \in SymbolSet :
        /\ (Delivered(s) /\ s \notin drv.test_cards) => s \in drv.recorded
        /\ s \in drv.record_raised => (~Delivered(s) /\ s \notin drv.cards)
        /\ s \in drv.test_cards => s \notin drv.recorded

\* The card of the first symbol is delivered after its record_trigger, and the
\* record_trigger of the second symbol raises.
C34_Witness ==
    /\ Delivered(Symbols[1])
    /\ Symbols[1] \in drv.recorded
    /\ drv.sinks[Symbols[1]].postback = "sent"
    /\ drv.record_raised = {Symbols[2]}
    /\ drv.pc = "sleep"


\* C31 (as stated): the z-score is defined for every series of at least 2
\* samples: the baseline is the up to baseline_windows samples before the
\* current one, the result is 0.0 when the baseline's sigma is 0 and
\* (current - mean) / sigma otherwise; it is undefined only for fewer than 2
\* samples.
C31_DefinedFromTwoSamples ==
    oi_out.called
        => IF Len(oi_in) < 2 THEN ~oi_out.zscore.defined
           ELSE /\ oi_out.zscore.defined
                /\ oi_out.zscore
                       = ZscoreOf(oi_in[Len(oi_in)],
                                  LastOf(SubSeq(oi_in, 1, Len(oi_in) - 1), baseline_windows))


\* C32 (as stated): when calculate_position_usdt rejects its input inside a
\* strategy (the stop equals the entry because the ATR is 0), the strategy's
\* generate returns None instead of raising.
C32_RejectedInputGivesNone ==
    (strat_out.called /\ strat_out.out.rejected) => strat_out.out.result = "none"

\* C40 (as stated): every card a strategy produces has its stop on the losing
\* side of its entry: below it for a LONG card, above it for a SHORT card.
C40_StopOnLosingSide ==
    (strat_out.called /\ strat_out.out.result = "card")
        => /\ strat_out.out.side = "LONG" => strat_out.out.stop < strat_out.out.entry
           /\ strat_out.out.side = "SHORT" => strat_out.out.stop > strat_out.out.entry

====
